---- MODULE Spec2Model ----
(***************************************************************************)
(* A model of the League-of-Legends match analysis engine                  *)
(* (src/src/media_buddy/riot_analyzer.py) and of the Riot API client it    *)
(* calls (src/src/media_buddy/riot_api.py), of the application state file  *)
(* (src/src/media_buddy/state_manager.py) and of the workflow phases       *)
(* (src/src/media_buddy/services/pipeline_orchestrator.py).                *)
(*                                                                         *)
(* Conventions                                                             *)
(*  - A Python dict is a TLA+ record; d.get(k, default) is Get(d, k, def). *)
(*  - Timestamps are integer milliseconds.  A value produced by            *)
(*    round(ms / 60000, 2) is kept as an integer number of hundredths of   *)
(*    a minute (RoundMinutes); 0.75 minutes is 75.                         *)
(*  - A string built by ', '.join(sorted(...)) is the sequence of its      *)
(*    tokens; split(', ') gives back the set of tokens.                    *)
(*  - Each analyzer is a pure function: it is an operator, and one action  *)
(*    applies it to inputs that the initial state draws from bounded sets. *)
(***************************************************************************)
EXTENDS Integers, Sequences, FiniteSets, TLC

VARIABLES
    pc,                     \* position of the operation being executed
    timeline_data,          \* the timeline payload: [info |-> [frames |-> <<frame,...>>]]
    match_data,             \* the match payload: [metadata |-> ..., info |-> ...]
    player_participant_id,  \* participant id of the tracked player
    fights,                 \* raw fights (result of _analyze_teamfights)
    clusters,               \* per fight, the indices of the kills of its cluster
    engagements,            \* result of _consolidate_fights_into_engagements
    re_engagements,         \* result of consolidating `engagements` again
    opponent_participant_id,\* participant id of the lane opponent
    laning,                 \* result of _analyze_laning_phase
    power_spikes,           \* result of _track_power_spikes
    death_analyses,         \* result of _generate_death_analysis
    player1_data,           \* participant record of the first player of a duo
    player2_data,           \* participant record of the second player of a duo
    duo_report,             \* result of _analyze_duo_dynamics with death_context
    entry_point,            \* the function called: analyze_match or the dynamic one
    primary_puuid,          \* run_match_analysis_dynamically: the main player
    all_friends_puuids,     \* run_match_analysis_dynamically: the known friends
    puuids_to_analyze,      \* analyze_match: the tracked players
    riot,                   \* what the Riot API holds: [match |-> ..., timeline |-> ...]
    request,                \* the make_api_request call in progress: [url, tries]
    requests_log,           \* the urls of the HTTP GETs issued so far
    fetch_failed,           \* the urls whose fetch raised or gave an empty payload
    analyzers_run,          \* the analyzers executed so far
    outcome,                \* how the entry point ended: returned value or exception
    state_file,             \* state_manager: the YAML file at STATE_FILE_PATH
    utc_now,                \* state_manager: what datetime.utcnow() returns next
    state_call,             \* state_manager: the last function called, with its argument
    state_result,           \* state_manager: what that call returned
    objectives,             \* result of _analyze_objectives
    workflow_states,        \* PipelineOrchestrator._workflow_states: article id -> state
    workflow_call           \* PipelineOrchestrator: the last call and what it returned

inputVars == <<timeline_data, match_data, player_participant_id>>
fightVars == <<fights, clusters, engagements, re_engagements>>
laningVars == <<opponent_participant_id, laning>>
spikeVars == <<power_spikes>>
deathVars == <<death_analyses>>
duoVars == <<player1_data, player2_data, duo_report>>
callVars == <<entry_point, primary_puuid, all_friends_puuids, puuids_to_analyze, riot>>
matchVars == <<callVars, request, requests_log, fetch_failed, analyzers_run, outcome>>

stateVars == <<state_file, utc_now, state_call, state_result>>
objectiveVars == <<objectives>>
workflowVars == <<workflow_states, workflow_call>>

vars ==
    <<pc, inputVars, fightVars, laningVars, spikeVars, deathVars, duoVars, matchVars,
      stateVars, objectiveVars, workflowVars>>

\* the variables that an analyzer other than the named one leaves alone
exceptFights == <<laningVars, spikeVars, deathVars, duoVars, matchVars, stateVars, objectiveVars, workflowVars>>
exceptLaning == <<fightVars, spikeVars, deathVars, duoVars, matchVars, stateVars, objectiveVars, workflowVars>>
exceptSpikes == <<fightVars, laningVars, deathVars, duoVars, matchVars, stateVars, objectiveVars, workflowVars>>
exceptDeath == <<fightVars, laningVars, duoVars, matchVars, stateVars, objectiveVars, workflowVars>>
exceptDuo == <<fightVars, laningVars, spikeVars, deathVars, matchVars, stateVars, objectiveVars, workflowVars>>
exceptMatch ==
    <<player_participant_id, fightVars, laningVars, spikeVars, deathVars, duoVars, stateVars, objectiveVars, workflowVars>>
exceptState ==
    <<pc, inputVars, fightVars, laningVars, spikeVars, deathVars, duoVars, matchVars,
      objectiveVars, workflowVars>>
exceptObjectives ==
    <<fightVars, laningVars, spikeVars, deathVars, duoVars, matchVars, stateVars,
      workflowVars>>
exceptWorkflow ==
    <<pc, inputVars, fightVars, laningVars, spikeVars, deathVars, duoVars, matchVars,
      stateVars, objectiveVars>>

\* the values of the variables an analysis run does not use
NoMatch == [metadata |-> [participants |-> <<>>], info |-> [participants |-> <<>>]]

FightsIdle ==
    fights = <<>> /\ clusters = <<>> /\ engagements = <<>> /\ re_engagements = <<>>

LaningIdle == opponent_participant_id = 0 /\ laning = <<>>

SpikesIdle == power_spikes = <<>>

DeathIdle == death_analyses = <<>>

DuoIdle == player1_data = <<>> /\ player2_data = <<>> /\ duo_report = <<>>

MatchIdle ==
    /\ entry_point = "none" /\ primary_puuid = "" /\ all_friends_puuids = <<>>
    /\ puuids_to_analyze = <<>> /\ riot = <<>> /\ request = <<>>
    /\ requests_log = <<>> /\ fetch_failed = {} /\ analyzers_run = {}
    /\ outcome = <<>>

StateIdle ==
    state_file = <<>> /\ utc_now = 0 /\ state_call = <<>> /\ state_result = <<>>

ObjectivesIdle == objectives = <<>>

WorkflowIdle == workflow_states = <<>> /\ workflow_call = <<>>

(***************************************************************************)
(* Python helpers                                                          *)
(***************************************************************************)
PyNone == "PyNone"

Get(d, k, default) == IF k \in DOMAIN d THEN d[k] ELSE default

Range(s) == {s[i] : i \in DOMAIN s}

\* list.index(x): the first position holding a value equal to x
IndexOf(s, x) == CHOOSE i \in DOMAIN s : s[i] = x /\ \A j \in DOMAIN s : s[j] = x => i <= j

\* round(ms / 60000, 2), in hundredths of a minute.  The time grids below
\* hold multiples of 200 ms only, so no value lies half-way between two
\* hundredths and the rounding mode plays no part.
RoundMinutes(ms) == (ms + 300) \div 600

IsNonDecreasing(ts) == \A i \in DOMAIN ts : \A j \in DOMAIN ts : i <= j => ts[i] <= ts[j]

(***************************************************************************)
(* Timeline access                                                         *)
(***************************************************************************)
RECURSIVE ExtendAll(_, _)
ExtendAll(frames, i) ==
    IF i > Len(frames) THEN <<>> ELSE frames[i].events \o ExtendAll(frames, i + 1)

\* all_events = []; for frame in frames: all_events.extend(frame['events'])
AllEvents(tl) == ExtendAll(tl.info.frames, 1)

IsKill(e) == Get(e, "type", PyNone) = "CHAMPION_KILL"

KillEventsOf(tl) == SelectSeq(AllEvents(tl), IsKill)

\* an empty participantFrames dict
NoFrames == [k \in {} |-> <<>>]

\* a timeline whose events all sit in one frame
OneFrameTimeline(evs) ==
    [info |-> [frames |->
        << [timestamp |-> 0, participantFrames |-> NoFrames, events |-> evs] >>]]

NoTimeline == [info |-> [frames |-> <<>>]]

(***************************************************************************)
(* _analyze_teamfights                                                     *)
(***************************************************************************)
FIGHT_MIN_KILLS == 3
FIGHT_WINDOW_SECONDS == 20

\* the tokens of player_involvement, in the order sorted() puts them
InvolvementOrder == <<"Assist", "Death", "Kill", "None">>

\* ', '.join(sorted(list(tokens)))
JoinSorted(tokens) == SelectSeq(InvolvementOrder, LAMBDA t : t \in tokens)

\* s.split(', ') as a set
SplitTokens(s) == Range(s)

\* a window that slides: each kill is compared with the kill before it
RECURSIVE WindowLast_Sliding(_, _, _)
WindowLast_Sliding(kills, j, window_end_time) ==
    IF j <= Len(kills)
       /\ kills[j].timestamp <= kills[j - 1].timestamp + (FIGHT_WINDOW_SECONDS * 1000)
    THEN WindowLast_Sliding(kills, j + 1, window_end_time)
    ELSE j - 1

\* the inner loop: kills j = from, from+1, ... are appended while their
\* timestamp is inside the window; the first one outside ends the loop
RECURSIVE WindowLast(_, _, _)
WindowLast(kills, j, window_end_time) ==
    IF j <= Len(kills) /\ kills[j].timestamp <= window_end_time
    THEN WindowLast(kills, j + 1, window_end_time)
    ELSE j - 1

VictimCreditsRed_OffByOne(victim_id) == 1 <= victim_id /\ victim_id < 5

VictimCreditsRed(victim_id) == 1 <= victim_id /\ victim_id <= 5

KillInvolvement(kill, pid) ==
    (IF Get(kill, "killerId", 0) = pid THEN {"Kill"} ELSE {})
    \cup (IF Get(kill, "victimId", 0) = pid THEN {"Death"} ELSE {})
    \cup (IF pid \in Range(Get(kill, "assistingParticipantIds", <<>>)) THEN {"Assist"} ELSE {})

\* for kill in current_fight_kills: ... (lines 118-135)
RECURSIVE FightSummary(_, _, _, _)
FightSummary(current_fight_kills, pid, k, acc) ==
    IF k > Len(current_fight_kills) THEN acc
    ELSE LET kill == current_fight_kills[k]
             victim_id == Get(kill, "victimId", 0)
             counted == IF VictimCreditsRed(victim_id)
                        THEN [acc EXCEPT !.red_team_kills = @ + 1]
                        ELSE [acc EXCEPT !.blue_team_kills = @ + 1]
         IN FightSummary(current_fight_kills, pid, k + 1,
                [counted EXCEPT !.involved = @ \cup KillInvolvement(kill, pid)])

RECURSIVE TeamfightsLoop(_, _, _, _, _)
TeamfightsLoop(kill_events, pid, i, processed_kill_indices, acc) ==
    IF i > Len(kill_events) THEN acc
    ELSE IF i \in processed_kill_indices
    THEN TeamfightsLoop(kill_events, pid, i + 1, processed_kill_indices, acc)
    ELSE LET start_kill == kill_events[i]
             window_end_time == start_kill.timestamp + (FIGHT_WINDOW_SECONDS * 1000)
             last == WindowLast(kill_events, i + 1, window_end_time)
             current_fight_kills == SubSeq(kill_events, i, last)
         IN IF Len(current_fight_kills) >= FIGHT_MIN_KILLS
            THEN LET s == FightSummary(current_fight_kills, pid, 1,
                              [blue_team_kills |-> 0, red_team_kills |-> 0, involved |-> {}])
                     fight_summary ==
                         [start_time_minutes |-> RoundMinutes(start_kill.timestamp),
                          kills |-> <<>>,
                          blue_team_kills |-> s.blue_team_kills,
                          red_team_kills |-> s.red_team_kills,
                          player_involvement |->
                              IF s.involved # {} THEN JoinSorted(s.involved) ELSE <<"None">>]
                     marked == {IndexOf(kill_events, current_fight_kills[k]) :
                                    k \in DOMAIN current_fight_kills}
                 IN TeamfightsLoop(kill_events, pid, i + 1,
                        processed_kill_indices \cup marked,
                        [fights |-> Append(acc.fights, fight_summary),
                         clusters |-> Append(acc.clusters, i .. last)])
            ELSE TeamfightsLoop(kill_events, pid, i + 1, processed_kill_indices, acc)

\* the fights, and for each fight the positions (in kill_events) of its cluster
TeamfightsRun(tl, pid) ==
    TeamfightsLoop(KillEventsOf(tl), pid, 1, {}, [fights |-> <<>>, clusters |-> <<>>])

_analyze_teamfights(tl, pid) == TeamfightsRun(tl, pid).fights

(***************************************************************************)
(* _consolidate_fights_into_engagements                                    *)
(***************************************************************************)
ENGAGEMENT_WINDOW_MINUTES == 75

WithinEngagementWindow_Strict(time_difference) ==
    time_difference < ENGAGEMENT_WINDOW_MINUTES

WithinEngagementWindow(time_difference) == time_difference <= ENGAGEMENT_WINDOW_MINUTES

MergeInvolvement_KeepNone(a, b) == JoinSorted(SplitTokens(a) \cup SplitTokens(b))

\* lines 164-174
MergeInvolvement(a, b) ==
    LET combined == (SplitTokens(a) \ {"None"}) \cup (SplitTokens(b) \ {"None"})
    IN IF combined # {} THEN JoinSorted(combined) ELSE <<"None">>

StartEngagement(fight) == [fight EXCEPT !.kills = PyNone]

\* the loop without the append of the last engagement after it
RECURSIVE ConsolidateLoop_DropsLast(_, _, _, _)
ConsolidateLoop_DropsLast(fs, i, current_engagement, out) ==
    IF i > Len(fs) THEN out
    ELSE LET next_fight == fs[i]
             time_difference == next_fight.start_time_minutes
                                    - current_engagement.start_time_minutes
         IN IF time_difference <= ENGAGEMENT_WINDOW_MINUTES
            THEN ConsolidateLoop_DropsLast(fs, i + 1,
                    [current_engagement EXCEPT
                        !.blue_team_kills = @ + next_fight.blue_team_kills,
                        !.red_team_kills = @ + next_fight.red_team_kills],
                    out)
            ELSE ConsolidateLoop_DropsLast(fs, i + 1, [next_fight EXCEPT !.kills = PyNone],
                    Append(out, current_engagement))

\* lines 154-183
RECURSIVE ConsolidateLoop(_, _, _, _)
ConsolidateLoop(fs, i, current_engagement, out) ==
    IF i > Len(fs) THEN Append(out, current_engagement)
    ELSE LET next_fight == fs[i]
             time_difference == next_fight.start_time_minutes
                                    - current_engagement.start_time_minutes
         IN IF WithinEngagementWindow(time_difference)
            THEN ConsolidateLoop(fs, i + 1,
                    [current_engagement EXCEPT
                        !.blue_team_kills = @ + next_fight.blue_team_kills,
                        !.red_team_kills = @ + next_fight.red_team_kills,
                        !.player_involvement =
                            MergeInvolvement(@, next_fight.player_involvement)],
                    out)
            ELSE ConsolidateLoop(fs, i + 1, StartEngagement(next_fight),
                    Append(out, current_engagement))

_consolidate_fights_into_engagements(fs) ==
    IF fs = <<>> THEN <<>>
    ELSE ConsolidateLoop(fs, 2, StartEngagement(fs[1]), <<>>)

(***************************************************************************)
(* _consolidate_fights_into_engagements on Python objects: the fights list *)
(* holds references 1 .. Len(fights) to dicts on a heap, a heap cell is    *)
(* the dict and whether the call has assigned None to its 'kills' key.     *)
(***************************************************************************)
HeapOf(fs) == [i \in 1 .. Len(fs) |-> [dict |-> fs[i], kills_none |-> FALSE]]

\* binding the dict itself instead of a copy of it
DictCopy_Alias(heap, ref) == [heap |-> heap, ref |-> ref]

\* fights[i].copy(): a new dict with the same keys and values
DictCopy(heap, ref) == [heap |-> Append(heap, heap[ref]), ref |-> Len(heap) + 1]

\* current_engagement = fights[i].copy(); current_engagement['kills'] = None
StartEngagementOnHeap(heap, i) ==
    LET copied == DictCopy(heap, i)
    IN [heap |-> [copied.heap EXCEPT ![copied.ref].kills_none = TRUE],
        ref |-> copied.ref]

\* lines 154-180: the stores into current_engagement
RECURSIVE ConsolidateLoopOnHeap(_, _, _, _)
ConsolidateLoopOnHeap(heap, n, i, current_engagement) ==
    IF i > n THEN heap
    ELSE LET next_fight == heap[i].dict
             time_difference == next_fight.start_time_minutes
                 - heap[current_engagement].dict.start_time_minutes
         IN IF WithinEngagementWindow(time_difference)
            THEN ConsolidateLoopOnHeap(
                    [heap EXCEPT
                        ![current_engagement].dict.blue_team_kills =
                            @ + next_fight.blue_team_kills,
                        ![current_engagement].dict.red_team_kills =
                            @ + next_fight.red_team_kills,
                        ![current_engagement].dict.player_involvement =
                            MergeInvolvement(@, next_fight.player_involvement)],
                    n, i + 1, current_engagement)
            ELSE LET started == StartEngagementOnHeap(heap, i)
                 IN ConsolidateLoopOnHeap(started.heap, n, i + 1, started.ref)

\* the cells the fights list refers to when the call returns
InputCellsAfter(fs) ==
    IF fs = <<>> THEN <<>>
    ELSE LET started == StartEngagementOnHeap(HeapOf(fs), 1)
             heap == ConsolidateLoopOnHeap(started.heap, Len(fs), 2, started.ref)
         IN [i \in 1 .. Len(fs) |-> heap[i]]

\* the fights list as the caller sees it after the call
InputAfter(fs) ==
    LET cells == InputCellsAfter(fs)
    IN [i \in 1 .. Len(fs) |->
          IF cells[i].kills_none THEN [cells[i].dict EXCEPT !.kills = PyNone]
          ELSE cells[i].dict]

(***************************************************************************)
(* Inputs of the engagement detector                                       *)
(***************************************************************************)
MaxKills == 4
MaxFights == 3

KillTimes == {0, 10000, 20000, 20200}

KillShapes ==
    { [killerId |-> 1, victimId |-> 6, assistingParticipantIds |-> <<>>],
      [killerId |-> 7, victimId |-> 5, assistingParticipantIds |-> <<6>>],
      [killerId |-> 2, victimId |-> 10, assistingParticipantIds |-> <<1>>],
      [killerId |-> 0, victimId |-> 1, assistingParticipantIds |-> <<>>] }

KillEvent(t, sh) ==
    [type |-> "CHAMPION_KILL", timestamp |-> t, killerId |-> sh.killerId,
     victimId |-> sh.victimId, assistingParticipantIds |-> sh.assistingParticipantIds]

\* a champion dies once at a time: no two kill events of a timeline have the
\* same timestamp and the same victim, so no two of them are equal dicts
DistinctDeaths(ts, sh) ==
    \A i \in DOMAIN ts : \A j \in DOMAIN ts :
        (i # j /\ ts[i] = ts[j]) => sh[i].victimId # sh[j].victimId

TrackedIds == {1, 6}

FightStarts == {0, 40, 75, 76, 80, 120}

\* a fight takes in every kill of the 20 seconds after its first kill, so the
\* next fight starts more than 20 seconds (0.33 minutes) later
FightsApart(ts) == \A i \in 1 .. Len(ts) - 1 : ts[i + 1] - ts[i] >= 33

FightShapes ==
    { [blue_team_kills |-> 3, red_team_kills |-> 0, player_involvement |-> <<"None">>],
      [blue_team_kills |-> 1, red_team_kills |-> 2, player_involvement |-> <<"Kill">>],
      [blue_team_kills |-> 0, red_team_kills |-> 4, player_involvement |-> <<"Assist", "Death">>],
      [blue_team_kills |-> 2, red_team_kills |-> 2, player_involvement |-> <<"Death">>] }

FightRecord(t, sh) ==
    [start_time_minutes |-> t, kills |-> <<>>,
     blue_team_kills |-> sh.blue_team_kills, red_team_kills |-> sh.red_team_kills,
     player_involvement |-> sh.player_involvement]

(***************************************************************************)
(* Specification of the engagement detector: fight clustering on a         *)
(* timeline of kills (SpecFights), consolidation of a list of fights and   *)
(* its repetition (SpecEngagements).                                       *)
(***************************************************************************)
InitFights ==
    /\ pc = "teamfights"
    /\ \E n \in 0 .. MaxKills :
         \E ts \in [1 .. n -> KillTimes] :
           \E sh \in [1 .. n -> KillShapes] :
             /\ IsNonDecreasing(ts)
             /\ DistinctDeaths(ts, sh)
             /\ timeline_data = OneFrameTimeline([i \in 1 .. n |-> KillEvent(ts[i], sh[i])])
    /\ player_participant_id \in TrackedIds
    /\ match_data = NoMatch
    /\ FightsIdle
    /\ LaningIdle /\ SpikesIdle /\ DeathIdle /\ DuoIdle /\ MatchIdle /\ StateIdle
    /\ ObjectivesIdle /\ WorkflowIdle

AnalyzeTeamfights ==
    /\ pc = "teamfights"
    /\ LET run == TeamfightsRun(timeline_data, player_participant_id)
       IN /\ fights' = run.fights
          /\ clusters' = run.clusters
    /\ pc' = "consolidate"
    /\ UNCHANGED <<inputVars, engagements, re_engagements, exceptFights>>

Consolidate ==
    /\ pc = "consolidate"
    /\ engagements' = _consolidate_fights_into_engagements(fights)
    /\ fights' = InputAfter(fights)
    /\ pc' = "consolidated"
    /\ UNCHANGED <<inputVars, clusters, re_engagements, exceptFights>>

Reconsolidate ==
    /\ pc = "consolidated"
    /\ re_engagements' = _consolidate_fights_into_engagements(engagements)
    /\ engagements' = InputAfter(engagements)
    /\ pc' = "reconsolidated"
    /\ UNCHANGED <<inputVars, fights, clusters, exceptFights>>

NextFights == AnalyzeTeamfights \/ Consolidate

SpecFights == InitFights /\ [][NextFights]_vars

InitEngagements ==
    /\ pc = "consolidate"
    /\ timeline_data = NoTimeline
    /\ player_participant_id = 1
    /\ \E n \in 0 .. MaxFights :
         \E ts \in [1 .. n -> FightStarts] :
           \E sh \in [1 .. n -> FightShapes] :
             /\ FightsApart(ts)
             /\ fights = [i \in 1 .. n |-> FightRecord(ts[i], sh[i])]
    /\ clusters = <<>>
    /\ engagements = <<>>
    /\ re_engagements = <<>>
    /\ match_data = NoMatch
    /\ LaningIdle /\ SpikesIdle /\ DeathIdle /\ DuoIdle /\ MatchIdle /\ StateIdle
    /\ ObjectivesIdle /\ WorkflowIdle

NextEngagements == Consolidate \/ Reconsolidate

SpecEngagements == InitEngagements /\ [][NextEngagements]_vars

(***************************************************************************)
(* Properties of the engagement detector                                   *)
(***************************************************************************)

FightKillAttribution ==
    \A k \in DOMAIN fights :
        LET kill_events == KillEventsOf(timeline_data)
            InRange(lo, hi) ==
                {j \in clusters[k] : lo <= kill_events[j].victimId /\ kill_events[j].victimId <= hi}
        IN /\ fights[k].blue_team_kills + fights[k].red_team_kills = Cardinality(clusters[k])
           /\ fights[k].red_team_kills = Cardinality(InRange(1, 5))
           /\ fights[k].blue_team_kills = Cardinality(InRange(6, 10))

\* a fight in which both sides scored, one of the victims being participant 5
FightKillAttributionWitness ==
    \E k \in DOMAIN fights :
        /\ fights[k].blue_team_kills > 0
        /\ fights[k].red_team_kills > 0
        /\ \E j \in clusters[k] : KillEventsOf(timeline_data)[j].victimId = 5

(***************************************************************************)
(* _analyze_laning_phase                                                   *)
(*                                                                         *)
(* The value of a call is either the returned dict or [raised |-> e] for   *)
(* an exception e that leaves the function.                                *)
(***************************************************************************)
Raise(e) == [raised |-> e]

IsRaise(r) == "raised" \in DOMAIN r

\* str(participant_id)
ToStr(i) == <<"1", "2", "3", "4", "5", "6", "7", "8", "9", "10">>[i]

\* truth value of frame_10.get(key): None (no such key) and {} are false
FrameTruthy(frame_10, key) == key \in DOMAIN frame_10 /\ DOMAIN frame_10[key] # {}

\* lines 55-75, inside the try
LaningBody(tl, player_id, opponent_id) ==
    IF Len(tl.info.frames) < 11 THEN Raise("IndexError")
    ELSE IF "participantFrames" \notin DOMAIN tl.info.frames[11] THEN Raise("KeyError")
    ELSE LET frame_10 == tl.info.frames[11].participantFrames
         IN IF ~FrameTruthy(frame_10, ToStr(player_id))
               \/ ~FrameTruthy(frame_10, ToStr(opponent_id))
            THEN [error |-> "Could not find player or opponent frame data at 10 minutes."]
            ELSE LET player_frame == frame_10[ToStr(player_id)]
                     opponent_frame == frame_10[ToStr(opponent_id)]
                     player_cs == Get(player_frame, "minionsKilled", 0)
                                    + Get(player_frame, "jungleMinionsKilled", 0)
                     player_gold == Get(player_frame, "totalGold", 0)
                     opponent_cs == Get(opponent_frame, "minionsKilled", 0)
                                    + Get(opponent_frame, "jungleMinionsKilled", 0)
                     opponent_gold == Get(opponent_frame, "totalGold", 0)
                 IN [cs_at_10 |-> player_cs,
                     opponent_cs_at_10 |-> opponent_cs,
                     cs_lead_at_10 |-> player_cs - opponent_cs,
                     gold_at_10 |-> player_gold,
                     opponent_gold_at_10 |-> opponent_gold,
                     gold_lead_at_10 |-> player_gold - opponent_gold]

LaningCaught_IndexOnly == {"IndexError"}

\* except (IndexError, KeyError)
LaningCaught == {"IndexError", "KeyError"}

\* the try/except of lines 53 and 76-77 around the body
LaningHandle(r, caught) ==
    IF IsRaise(r) /\ r.raised \in caught
    THEN [error |-> "Could not process timeline data for laning phase"]
    ELSE r

_analyze_laning_phase(tl, player_id, opponent_id) ==
    LaningHandle(LaningBody(tl, player_id, opponent_id), LaningCaught)

(***************************************************************************)
(* Inputs of the laning snapshot: a timeline of 0..MaxFrames frames that   *)
(* all carry the same participant frames.                                  *)
(***************************************************************************)
MaxFrames == 11

ParticipantFrameValues ==
    { [minionsKilled |-> 50, jungleMinionsKilled |-> 4, totalGold |-> 3000],
      [minionsKilled |-> 62, jungleMinionsKilled |-> 0, totalGold |-> 2800],
      [totalGold |-> 2500],
      [k \in {} |-> 0] }

LaningKeys == {"1", "6"}

\* the dicts frame['participantFrames'] tried: any subset of the two lane
\* players, each with any of the values above
LaningFrameDicts ==
    UNION { [ks -> ParticipantFrameValues] : ks \in SUBSET LaningKeys }

LaningFrames ==
    { [timestamp |-> 0, participantFrames |-> d, events |-> <<>>] : d \in LaningFrameDicts }
    \cup { [timestamp |-> 0, events |-> <<>>] }

InitLaning ==
    /\ pc = "laning"
    /\ \E n \in 0 .. MaxFrames : \E f \in LaningFrames :
         timeline_data = [info |-> [frames |-> [i \in 1 .. n |-> f]]]
    /\ \E ids \in {<<1, 6>>, <<6, 1>>} :
         player_participant_id = ids[1] /\ opponent_participant_id = ids[2]
    /\ laning = <<>>
    /\ match_data = NoMatch
    /\ FightsIdle /\ SpikesIdle /\ DeathIdle /\ DuoIdle /\ MatchIdle /\ StateIdle
    /\ ObjectivesIdle /\ WorkflowIdle

AnalyzeLaningPhase ==
    /\ pc = "laning"
    /\ laning' = _analyze_laning_phase(timeline_data, player_participant_id,
                                       opponent_participant_id)
    /\ pc' = "laning_done"
    /\ UNCHANGED <<inputVars, opponent_participant_id, exceptLaning>>

NextLaning == AnalyzeLaningPhase

SpecLaning == InitLaning /\ [][NextLaning]_vars

LaningNumericFields ==
    {"cs_at_10", "opponent_cs_at_10", "cs_lead_at_10",
     "gold_at_10", "opponent_gold_at_10", "gold_lead_at_10"}

\* frame 10 (the eleventh frame) is missing, or it has no data for p
LaningDataMissing(p) ==
    \/ Len(timeline_data.info.frames) < 11
    \/ "participantFrames" \notin DOMAIN timeline_data.info.frames[11]
    \/ ToStr(p) \notin DOMAIN timeline_data.info.frames[11].participantFrames
    \/ timeline_data.info.frames[11].participantFrames[ToStr(p)] = [k \in {} |-> 0]

\* C5: _analyze_laning_phase never raises; without frame 10 or without the
\* player's or the opponent's frame in it the result has the key 'error' and
\* no numeric field; otherwise it has exactly the six numeric fields, with
\* the leads being player minus opponent, and no 'error' key.
LaningNeverRaises ==
    pc = "laning_done" =>
        /\ ~IsRaise(laning)
        /\ IF LaningDataMissing(player_participant_id)
              \/ LaningDataMissing(opponent_participant_id)
           THEN "error" \in DOMAIN laning /\ DOMAIN laning \cap LaningNumericFields = {}
           ELSE /\ DOMAIN laning = LaningNumericFields
                /\ laning.cs_lead_at_10 = laning.cs_at_10 - laning.opponent_cs_at_10
                /\ laning.gold_lead_at_10 = laning.gold_at_10 - laning.opponent_gold_at_10

\* a timeline cut before minute 10 was analysed and gave an error value
LaningNeverRaisesWitness ==
    /\ pc = "laning_done"
    /\ Len(timeline_data.info.frames) \in 1 .. 10
    /\ "error" \in DOMAIN laning

(***************************************************************************)
(* _track_power_spikes                                                     *)
(***************************************************************************)
LEGENDARY_ITEM_IDS == {3074, 3153, 6675, 3006, 6672, 3031, 3089, 4633, 6653, 6655}

SPREE_WINDOW_MS == 30000

IsLegendaryPurchase(e) ==
    Get(e, "type", PyNone) = "ITEM_PURCHASED" /\ Get(e, "itemId", 0) \in LEGENDARY_ITEM_IDS

\* 1. item completions (lines 225-233); power_spikes[player_id] of an id
\* outside 1..10 is a KeyError
RECURSIVE ItemSpikes(_, _, _)
ItemSpikes(item_events, k, spikes) ==
    IF k > Len(item_events) THEN [value |-> spikes]
    ELSE LET event == item_events[k]
             player_id == Get(event, "participantId", 0)
             spike == [time_minutes |-> RoundMinutes(event.timestamp),
                       type |-> "Item Completion",
                       detail |-> [item_id |-> Get(event, "itemId", 0)]]
         IN IF player_id \notin DOMAIN spikes THEN Raise("KeyError")
            ELSE ItemSpikes(item_events, k + 1,
                     [spikes EXCEPT ![player_id] = Append(@, spike)])

\* streak_count of the kill at position i: itself and every later kill of
\* the same killer up to window_end_time (the inner loop has no break)
StreakCount(kill_events, i) ==
    1 + Cardinality({j \in (i + 1) .. Len(kill_events) :
            /\ Get(kill_events[j], "killerId", PyNone) = Get(kill_events[i], "killerId", 0)
            /\ kill_events[j].timestamp <= kill_events[i].timestamp + SPREE_WINDOW_MS})

SpreeAlreadyListed_Never(listed, spike) == FALSE

\* any(s['time_minutes'] == spike['time_minutes'] and s['type'] == 'Killing Spree' ...)
SpreeAlreadyListed(listed, spike) ==
    \E n \in DOMAIN listed :
        listed[n].time_minutes = spike.time_minutes /\ listed[n].type = "Killing Spree"

\* 2. multi-kills (lines 236-257)
RECURSIVE SpreeSpikes(_, _, _)
SpreeSpikes(kill_events, i, spikes) ==
    IF i > Len(kill_events) THEN [value |-> spikes]
    ELSE LET start_kill == kill_events[i]
             killer_id == Get(start_kill, "killerId", 0)
             streak_count == StreakCount(kill_events, i)
             spike == [time_minutes |-> RoundMinutes(start_kill.timestamp),
                       type |-> "Killing Spree",
                       detail |-> [kills |-> streak_count]]
         IN IF killer_id = 0 THEN SpreeSpikes(kill_events, i + 1, spikes)
            ELSE IF streak_count >= 2
            THEN IF killer_id \notin DOMAIN spikes THEN Raise("KeyError")
                 ELSE IF ~SpreeAlreadyListed(spikes[killer_id], spike)
                 THEN SpreeSpikes(kill_events, i + 1,
                          [spikes EXCEPT ![killer_id] = Append(@, spike)])
                 ELSE SpreeSpikes(kill_events, i + 1, spikes)
            ELSE SpreeSpikes(kill_events, i + 1, spikes)

\* [value |-> the table] or [raised |-> the exception]
TrackPowerSpikesRun(tl) ==
    LET all_events == AllEvents(tl)
        items == ItemSpikes(SelectSeq(all_events, IsLegendaryPurchase), 1,
                            [p \in 1 .. 10 |-> <<>>])
    IN IF IsRaise(items) THEN items
       ELSE SpreeSpikes(SelectSeq(all_events, IsKill), 1, items.value)

_track_power_spikes(tl) == TrackPowerSpikesRun(tl).value

(***************************************************************************)
(* Inputs of the power-spike tracker                                       *)
(***************************************************************************)
MaxSpikeEvents == 4

SpikeTimes == {0, 200, 10000, 30200}

SpikeEventShapes ==
    { [type |-> "CHAMPION_KILL", killerId |-> 1, victimId |-> 6,
       assistingParticipantIds |-> <<>>],
      [type |-> "CHAMPION_KILL", killerId |-> 1, victimId |-> 7,
       assistingParticipantIds |-> <<2>>],
      [type |-> "CHAMPION_KILL", killerId |-> 6, victimId |-> 1,
       assistingParticipantIds |-> <<>>],
      [type |-> "CHAMPION_KILL", killerId |-> 0, victimId |-> 2,
       assistingParticipantIds |-> <<>>],
      [type |-> "ITEM_PURCHASED", itemId |-> 3074, participantId |-> 1],
      [type |-> "ITEM_PURCHASED", itemId |-> 1001, participantId |-> 6] }

\* the event of shape sh at time t
At(sh, t) == [k \in DOMAIN sh \cup {"timestamp"} |-> IF k = "timestamp" THEN t ELSE sh[k]]

InitSpikes ==
    /\ pc = "spikes"
    /\ \E n \in 0 .. MaxSpikeEvents :
         \E ts \in [1 .. n -> SpikeTimes] :
           \E sh \in [1 .. n -> SpikeEventShapes] :
             /\ IsNonDecreasing(ts)
             /\ timeline_data = OneFrameTimeline([i \in 1 .. n |-> At(sh[i], ts[i])])
    /\ player_participant_id = 1
    /\ match_data = NoMatch
    /\ power_spikes = <<>>
    /\ FightsIdle /\ LaningIdle /\ DeathIdle /\ DuoIdle /\ MatchIdle /\ StateIdle
    /\ ObjectivesIdle /\ WorkflowIdle

TrackPowerSpikes ==
    /\ pc = "spikes"
    /\ IF IsRaise(TrackPowerSpikesRun(timeline_data))
       THEN pc' = "spikes_raised" /\ UNCHANGED power_spikes
       ELSE pc' = "spikes_done" /\ power_spikes' = _track_power_spikes(timeline_data)
    /\ UNCHANGED <<inputVars, exceptSpikes>>

NextSpikes == TrackPowerSpikes

SpecSpikes == InitSpikes /\ [][NextSpikes]_vars

\* C9: no participant's list holds two 'Killing Spree' spikes with the same
\* time_minutes.
NoDuplicateSpree ==
    pc = "spikes_done" =>
        \A p \in DOMAIN power_spikes :
            \A a \in DOMAIN power_spikes[p] : \A b \in DOMAIN power_spikes[p] :
                /\ a # b
                /\ power_spikes[p][a].type = "Killing Spree"
                /\ power_spikes[p][b].type = "Killing Spree"
                => power_spikes[p][a].time_minutes # power_spikes[p][b].time_minutes

\* two kills of one killer, each followed by a further kill of that killer
\* inside its 30 s window, start at the same hundredth of a minute
NoDuplicateSpreeWitness ==
    /\ pc = "spikes_done"
    /\ LET kill_events == KillEventsOf(timeline_data)
       IN \E i \in DOMAIN kill_events : \E j \in DOMAIN kill_events :
            /\ i < j
            /\ kill_events[i].killerId # 0
            /\ kill_events[i].killerId = kill_events[j].killerId
            /\ RoundMinutes(kill_events[i].timestamp) = RoundMinutes(kill_events[j].timestamp)
            /\ StreakCount(kill_events, j) >= 2
            /\ Len(power_spikes[kill_events[i].killerId]) >= 1

(***************************************************************************)
(* _analyze_objectives                                                     *)
(***************************************************************************)
IsEliteKill(e) == Get(e, "type", PyNone) = "ELITE_MONSTER_KILL"

\* lines 198-200 (and 416-418): the sub type is looked up for dragons only
MonsterTypeOf(obj) ==
    LET monster_type == Get(obj, "monsterType", "UNKNOWN")
    IN IF monster_type = "DRAGON" THEN Get(obj, "monsterSubType", "DRAGON")
       ELSE monster_type

ObjectiveRecord(obj) ==
    [time_minutes |-> RoundMinutes(obj.timestamp),
     team |-> IF Get(obj, "killerTeamId", 0) = 100 THEN "Blue" ELSE "Red",
     type |-> MonsterTypeOf(obj)]

_analyze_objectives(tl) ==
    LET objective_kills == SelectSeq(AllEvents(tl), IsEliteKill)
    IN [k \in DOMAIN objective_kills |-> ObjectiveRecord(objective_kills[k])]

(***************************************************************************)
(* _generate_death_analysis                                                *)
(*                                                                         *)
(* A note (an f-string of the source) is a record: its fixed text in       *)
(* `note`, the values formatted into it in further fields.                 *)
(***************************************************************************)
EmptyDict == [k \in {} |-> 0]

IdKeys == <<"1", "2", "3", "4", "5", "6", "7", "8", "9", "10">>

\* dict.values() in insertion order; the payload lists participants 1..10
FrameValues(pf) ==
    LET keys == SelectSeq(IdKeys, LAMBDA k : k \in DOMAIN pf)
    IN [n \in DOMAIN keys |-> pf[keys[n]]]

\* max(xs, key=...) and min(xs, key=...): the first extremal element
FirstMaxGold(xs) ==
    xs[CHOOSE i \in DOMAIN xs :
        /\ \A j \in DOMAIN xs : Get(xs[j], "totalGold", 0) <= Get(xs[i], "totalGold", 0)
        /\ \A j \in 1 .. i - 1 : Get(xs[j], "totalGold", 0) < Get(xs[i], "totalGold", 0)]

FirstMinGold(xs) ==
    xs[CHOOSE i \in DOMAIN xs :
        /\ \A j \in DOMAIN xs : Get(xs[j], "totalGold", 0) >= Get(xs[i], "totalGold", 0)
        /\ \A j \in 1 .. i - 1 : Get(xs[j], "totalGold", 0) > Get(xs[i], "totalGold", 0)]

\* lines 276-280: the first frame at or after the death, or none
RECURSIVE DeathFrameOf(_, _, _)
DeathFrameOf(frames, i, death_time_ms) ==
    IF i > Len(frames) THEN [found |-> FALSE]
    ELSE IF frames[i].timestamp >= death_time_ms
    THEN [found |-> TRUE, frame |-> frames[i].participantFrames]
    ELSE DeathFrameOf(frames, i + 1, death_time_ms)

\* if death_frame: (neither None nor an empty dict)
DeathFrameTruthy(df) == df.found /\ DOMAIN df.frame # {}

IsBlueId(id) == 1 <= id /\ id <= 5

\* lines 292-295
KilledBy(match, killer_id) ==
    LET ps == match.info.participants
        hits == {n \in DOMAIN ps : ps[n].participantId = killer_id}
    IN IF killer_id > 0 /\ hits # {}
       THEN ps[CHOOSE n \in hits : \A m \in hits : n <= m].championName
       ELSE "Unknown"

\* lines 297-301: the first spike of the killer in the 1.5 minutes before
SpikeNotes(spikes, killer_id, death_time_minutes) ==
    IF killer_id \notin DOMAIN spikes THEN <<>>
    ELSE LET recent == {n \in DOMAIN spikes[killer_id] :
                          /\ spikes[killer_id][n].time_minutes < death_time_minutes
                          /\ spikes[killer_id][n].time_minutes > death_time_minutes - 150}
         IN IF recent = {} THEN <<>>
            ELSE << [note |-> "Killer had recent spike",
                     type |-> spikes[killer_id][CHOOSE n \in recent :
                                                  \A m \in recent : n <= m].type] >>

\* lines 303-314
StrongestOfTeamNotes(df, killer_id, pid) ==
    IF ~DeathFrameTruthy(df) THEN <<>>
    ELSE LET GoldOf(id) == Get(Get(df.frame, ToStr(id), EmptyDict), "totalGold", 0)
             enemy_team_ids == IF pid <= 5 THEN 6 .. 10 ELSE 1 .. 5
         IN IF \A team_id \in enemy_team_ids :
                    team_id # killer_id => GoldOf(team_id) <= GoldOf(killer_id)
            THEN << [note |-> "Killer was their team's strongest player (by gold)"] >>
            ELSE <<>>

\* lines 323-328
FightParticipants(df, pid) ==
    LET player_pos == Get(Get(df.frame, ToStr(pid), EmptyDict), "position", EmptyDict)
        Near(p_frame) ==
            LET p_pos == Get(p_frame, "position", EmptyDict)
            IN /\ DOMAIN p_pos # {}
               /\ (player_pos.x - p_pos.x) * (player_pos.x - p_pos.x)
                    + (player_pos.y - p_pos.y) * (player_pos.y - p_pos.y) < 2000 * 2000
    IN SelectSeq(FrameValues(df.frame), Near)

HeadCountDiffers(allies_nearby, enemies_nearby) == allies_nearby # enemies_nearby

\* lines 330-334
HeadCountNotes(fight_participants_data, pid) ==
    LET allies_nearby ==
            Cardinality({n \in DOMAIN fight_participants_data :
                IsBlueId(fight_participants_data[n].participantId) = IsBlueId(pid)})
        enemies_nearby == Len(fight_participants_data) - allies_nearby
    IN IF HeadCountDiffers(allies_nearby, enemies_nearby)
       THEN << [note |-> "Fought in a AvE situation",
                allies |-> allies_nearby, enemies |-> enemies_nearby] >>
       ELSE <<>>

\* lines 337-349
GoldNotes(fight_participants_data, killer_id, pid) ==
    IF Len(fight_participants_data) <= 1 THEN <<>>
    ELSE LET strongest_in_fight == FirstMaxGold(fight_participants_data)
             weakest_in_fight == FirstMinGold(fight_participants_data)
             gold_diff == strongest_in_fight.totalGold - weakest_in_fight.totalGold
         IN (IF gold_diff > 500
             THEN << [note |-> "Fight gold disparity", gold |-> gold_diff] >> ELSE <<>>)
            \o (IF killer_id = strongest_in_fight.participantId
                THEN << [note |-> "Killed by strongest in fight"] >> ELSE <<>>)
            \o (IF pid = weakest_in_fight.participantId
                THEN << [note |-> "Died as weakest in fight"] >> ELSE <<>>)

\* lines 317-354
FightContextNotes(df, killer_id, pid) ==
    IF ~DeathFrameTruthy(df) THEN <<>>
    ELSE LET player_pos == Get(Get(df.frame, ToStr(pid), EmptyDict), "position", EmptyDict)
             local == IF DOMAIN player_pos = {} THEN <<>>
                      ELSE HeadCountNotes(FightParticipants(df, pid), pid)
                            \o GoldNotes(FightParticipants(df, pid), killer_id, pid)
             strongest_in_game == FirstMaxGold(FrameValues(df.frame))
         IN local \o (IF killer_id = strongest_in_game.participantId
                      THEN << [note |-> "Killed by strongest player in the game"] >>
                      ELSE <<>>)

OUTCOME_WINDOW_MS == 60000

InOutcomeWindow(event, death_time_ms) ==
    event.timestamp > death_time_ms /\ event.timestamp <= death_time_ms + OUTCOME_WINDOW_MS

\* lines 357-367: the first elite monster kill of the window decides
OutcomeNotes(all_events, death_time_ms, pid) ==
    LET hits == {n \in DOMAIN all_events :
                    InOutcomeWindow(all_events[n], death_time_ms) /\ IsEliteKill(all_events[n])}
    IN IF hits = {} THEN <<>>
       ELSE LET event == all_events[CHOOSE n \in hits : \A m \in hits : n <= m]
                killer_team_id == IF IsBlueId(Get(event, "killerId", 0)) THEN 100 ELSE 200
                player_team_id == IF IsBlueId(pid) THEN 100 ELSE 200
                obj_type == Get(event, "monsterType", "Objective")
            IN IF killer_team_id # player_team_id
               THEN << [note |-> "Enemy took", type |-> obj_type] >>
               ELSE << [note |-> "Allies took (trade)", type |-> obj_type] >>

NoContextNote == [note |-> "No special circumstances noted."]
NoOutcomeNote == [note |-> "No immediate objective change."]

OrPlaceholder_Omitted(notes, placeholder) == notes

\* lines 369-370: if not notes: notes.append(placeholder)
OrPlaceholder(notes, placeholder) == IF notes = <<>> THEN <<placeholder>> ELSE notes

DeathAnalysisOf(tl, match, pid, spikes, death) ==
    LET death_time_ms == death.timestamp
        death_time_minutes == RoundMinutes(death_time_ms)
        df == DeathFrameOf(tl.info.frames, 1, death_time_ms)
        killer_id == Get(death, "killerId", 0)
        killer_notes == IF killer_id > 0
                        THEN SpikeNotes(spikes, killer_id, death_time_minutes)
                                \o StrongestOfTeamNotes(df, killer_id, pid)
                        ELSE <<>>
    IN [time_minutes |-> death_time_minutes,
        killed_by |-> KilledBy(match, killer_id),
        context |-> OrPlaceholder(killer_notes \o FightContextNotes(df, killer_id, pid),
                                  NoContextNote),
        outcome |-> OrPlaceholder(OutcomeNotes(AllEvents(tl), death_time_ms, pid),
                                  NoOutcomeNote)]

\* the CHAMPION_KILL events whose victim is the player
PlayerDeaths(tl, pid) ==
    SelectSeq(AllEvents(tl), LAMBDA e : IsKill(e) /\ Get(e, "victimId", PyNone) = pid)

_generate_death_analysis(tl, match, pid, spikes) ==
    LET player_deaths == PlayerDeaths(tl, pid)
    IN [k \in DOMAIN player_deaths |-> DeathAnalysisOf(tl, match, pid, spikes, player_deaths[k])]

(***************************************************************************)
(* Inputs of the death context analyzer: one death of the tracked player,  *)
(* optionally preceded by an item completion of the killer and followed by *)
(* up to MaxElite elite monster kills; two frames, at 0:00 and 1:00.       *)
(***************************************************************************)
MaxElite == 1

ChampionNames ==
    <<"Ahri", "Braum", "Corki", "Diana", "Ekko", "Fiora", "Garen", "Heimerdinger",
      "Irelia", "Jinx">>

LanePositions == <<"TOP", "JUNGLE", "MIDDLE", "BOTTOM", "UTILITY">>

PuuidOf(i) ==
    <<"puuid-1", "puuid-2", "puuid-3", "puuid-4", "puuid-5",
      "puuid-6", "puuid-7", "puuid-8", "puuid-9", "puuid-10">>[i]

\* the participant record of slot i of a match as the Riot API lists it
Participant(i) ==
    [puuid |-> PuuidOf(i), participantId |-> i, championName |-> ChampionNames[i],
     teamId |-> IF i <= 5 THEN 100 ELSE 200,
     teamPosition |-> LanePositions[((i - 1) % 5) + 1],
     kills |-> 0, deaths |-> 0, assists |-> 0, win |-> (i <= 5),
     challenges |-> [kda |-> 0, killParticipation |-> 0],
     totalDamageDealtToChampions |-> 1000 * i, visionScore |-> i]

StandardMatch ==
    [metadata |-> [participants |-> [i \in 1 .. 10 |-> PuuidOf(i)]],
     info |-> [participants |-> [i \in 1 .. 10 |-> Participant(i)]]]

DeathGold == {1000, 1600}

Origin == [x |-> 0, y |-> 0]
NearBy == [x |-> 1200, y |-> 1500]
FarAway == [x |-> 5000, y |-> 0]

\* participant frames of the participants 1, 2, 6 and 7
DeathFrameDicts ==
    { [k \in {"1", "2", "6", "7"} |->
          [participantId |-> IF k = "1" THEN 1 ELSE IF k = "2" THEN 2
                             ELSE IF k = "6" THEN 6 ELSE 7,
           totalGold |-> g[k],
           position |-> IF k = "1" THEN Origin ELSE IF k = "6" THEN NearBy ELSE pos[k]]] :
      g \in [{"1", "2", "6", "7"} -> DeathGold], pos \in [{"2", "7"} -> {Origin, FarAway}] }

DeathTimes == {30000, 60000, 60200}

EliteOffsets == {0, 200, 60000, 60200}

EliteShapes ==
    { [type |-> "ELITE_MONSTER_KILL", killerId |-> 2, killerTeamId |-> 100,
       monsterType |-> "DRAGON", monsterSubType |-> "FIRE_DRAGON",
       assistingParticipantIds |-> <<1>>],
      [type |-> "ELITE_MONSTER_KILL", killerId |-> 7, killerTeamId |-> 200,
       monsterType |-> "BARON_NASHOR", assistingParticipantIds |-> <<>>],
      \* the last hit was not a champion's: no killer, the team is credited
      [type |-> "ELITE_MONSTER_KILL", killerId |-> 0, killerTeamId |-> 100,
       monsterType |-> "RIFTHERALD", assistingParticipantIds |-> <<1, 2>>] }

KillersOf(pid) == IF pid <= 5 THEN {0, 6, 7} ELSE {0, 1, 2}

TwoFrameTimeline(pf, evs) ==
    [info |-> [frames |->
        << [timestamp |-> 0, participantFrames |-> pf, events |-> evs],
           [timestamp |-> 60000, participantFrames |-> pf, events |-> <<>>] >>]]

InitDeath ==
    /\ pc = "death"
    /\ player_participant_id \in TrackedIds
    /\ match_data = StandardMatch
    /\ \E pf \in DeathFrameDicts, td \in DeathTimes, killer \in KillersOf(player_participant_id),
          bought \in BOOLEAN, n \in 0 .. MaxElite :
         \E offs \in [1 .. n -> EliteOffsets], sh \in [1 .. n -> EliteShapes] :
            /\ IsNonDecreasing(offs)
            /\ bought => killer # 0
            /\ timeline_data =
                 TwoFrameTimeline(pf,
                    (IF bought
                     THEN << [type |-> "ITEM_PURCHASED", timestamp |-> 0,
                              itemId |-> 3074, participantId |-> killer] >>
                     ELSE <<>>)
                    \o << [type |-> "CHAMPION_KILL", timestamp |-> td, killerId |-> killer,
                           victimId |-> player_participant_id,
                           assistingParticipantIds |-> <<>>] >>
                    \o [i \in 1 .. n |-> At(sh[i], td + offs[i])])
    /\ power_spikes = <<>>
    /\ death_analyses = <<>>
    /\ FightsIdle /\ LaningIdle /\ DuoIdle /\ MatchIdle /\ StateIdle
    /\ ObjectivesIdle /\ WorkflowIdle

\* analyze_match, lines 523 and 567-572: the spikes are computed from the
\* same timeline and handed to the death analysis
GenerateDeathAnalysis ==
    /\ pc = "death"
    /\ power_spikes' = _track_power_spikes(timeline_data)
    /\ death_analyses' = _generate_death_analysis(timeline_data, match_data,
                            player_participant_id, _track_power_spikes(timeline_data))
    /\ pc' = "death_done"
    /\ UNCHANGED <<inputVars, exceptDeath>>

NextDeath == GenerateDeathAnalysis

SpecDeath == InitDeath /\ [][NextDeath]_vars

EliteKillAfter(death) ==
    \E n \in DOMAIN AllEvents(timeline_data) :
        LET e == AllEvents(timeline_data)[n]
        IN /\ e.type = "ELITE_MONSTER_KILL"
           /\ e.timestamp > death.timestamp
           /\ e.timestamp <= death.timestamp + 60000

\* C6: every death analysis has non-empty context and outcome lists; without
\* an elite monster kill in the 60 s after the death the outcome is exactly
\* the placeholder, and when no context note applies (in particular for a
\* death without killer and without a frame at or after it) the context is
\* exactly the placeholder, which never appears next to another note.
DeathNotesNeverEmpty ==
    pc = "death_done" =>
        \A k \in DOMAIN death_analyses :
            LET death == PlayerDeaths(timeline_data, player_participant_id)[k]
                a == death_analyses[k]
            IN /\ a.context # <<>>
               /\ a.outcome # <<>>
               /\ ~EliteKillAfter(death) => a.outcome = <<NoOutcomeNote>>
               /\ EliteKillAfter(death) => NoOutcomeNote \notin Range(a.outcome)
               /\ NoContextNote \in Range(a.context) => a.context = <<NoContextNote>>
               /\ (/\ death.killerId = 0
                   /\ \A n \in DOMAIN timeline_data.info.frames :
                         timeline_data.info.frames[n].timestamp < death.timestamp)
                  => a.context = <<NoContextNote>>

\* a death after the last frame and without killer, with an elite monster
\* kill that falls outside the 60 s window: both placeholders are emitted
DeathNotesNeverEmptyWitness ==
    /\ pc = "death_done"
    /\ Len(death_analyses) = 1
    /\ death_analyses[1].context = <<NoContextNote>>
    /\ death_analyses[1].outcome = <<NoOutcomeNote>>
    /\ \E n \in DOMAIN AllEvents(timeline_data) :
          AllEvents(timeline_data)[n].type = "ELITE_MONSTER_KILL"

(***************************************************************************)
(* _analyze_duo_dynamics                                                   *)
(***************************************************************************)
AssistedKill_AnyKiller(kill, killer, assistant) ==
    assistant \in Range(Get(kill, "assistingParticipantIds", <<>>))

\* killer_id == killer and assistant in assisting_ids (lines 402 and 406)
AssistedKill(kill, killer, assistant) ==
    /\ Get(kill, "killerId", PyNone) = killer
    /\ assistant \in Range(Get(kill, "assistingParticipantIds", <<>>))

\* lines 412-423
JointObjectives(tl, p1, p2) ==
    LET p1_id == p1.participantId
        p2_id == p2.participantId
        Joint(obj) ==
            LET involved_ids == <<Get(obj, "killerId", PyNone)>>
                                    \o Get(obj, "assistingParticipantIds", <<>>)
            IN /\ IsEliteKill(obj)
               /\ Get(obj, "killerTeamId", PyNone) = Get(p1, "teamId", PyNone)
               /\ p1_id \in Range(involved_ids)
               /\ p2_id \in Range(involved_ids)
        joint == SelectSeq(AllEvents(tl), Joint)
    IN [k \in DOMAIN joint |->
          [time_minutes |-> RoundMinutes(joint[k].timestamp), type |-> MonsterTypeOf(joint[k])]]

_analyze_duo_dynamics(match, tl, p1, p2) ==
    LET p1_id == p1.participantId
        p2_id == p2.participantId
        kill_events == KillEventsOf(tl)
    IN [kill_collaboration |->
          [p1_on_p2_kills |->
               Cardinality({k \in DOMAIN kill_events : AssistedKill(kill_events[k], p2_id, p1_id)}),
           p2_on_p1_kills |->
               Cardinality({k \in DOMAIN kill_events : AssistedKill(kill_events[k], p1_id, p2_id)}),
           total_p1_kills |-> Get(p1, "kills", 0),
           total_p2_kills |-> Get(p2, "kills", 0)],
        joint_objectives |-> JointObjectives(tl, p1, p2)]

(***************************************************************************)
(* _analyze_duo_death_context                                              *)
(***************************************************************************)
\* abs(round(ms / 1000)); the time grids hold no value half-way between
\* two seconds
AbsRoundSeconds(ms) == ((IF ms < 0 THEN -ms ELSE ms) + 500) \div 1000

\* window_start < timestamp < window_end (lines 458-463)
InDuoWindow(event, death_time_ms) ==
    event.timestamp > death_time_ms - 10000 /\ event.timestamp < death_time_ms + 15000

IsCoDeath(event, other_id) ==
    Get(event, "type", PyNone) = "CHAMPION_KILL" /\ Get(event, "victimId", PyNone) = other_id

\* Case 2 (line 475): a kill of the other player, whoever its victim is
IsRevenge(event, other_id) ==
    Get(event, "type", PyNone) = "CHAMPION_KILL" /\ Get(event, "killerId", PyNone) = other_id

\* lines 447-481 for one death: the first event of the window that is a
\* co-death or a kill by the other player decides; `hit` is its position
DuoDeathEntry(all_events, death_event, p1, p2) ==
    LET p1_id == p1.participantId
        p2_id == p2.participantId
        p1_champ == Get(p1, "championName", "Player 1")
        p2_champ == Get(p2, "championName", "Player 2")
        victim_id == death_event.victimId
        other_id == IF victim_id = p1_id THEN p2_id ELSE p1_id
        death_time_ms == death_event.timestamp
        hits == {n \in DOMAIN all_events :
                    /\ InDuoWindow(all_events[n], death_time_ms)
                    /\ IsCoDeath(all_events[n], other_id) \/ IsRevenge(all_events[n], other_id)}
    IN IF hits = {} THEN [found |-> FALSE]
       ELSE LET hit == CHOOSE n \in hits : \A m \in hits : n <= m
                event == all_events[hit]
            IN IF IsCoDeath(event, other_id)
               THEN [found |-> TRUE, hit |-> hit, co_death |-> TRUE,
                     context |->
                       [time_minutes |-> RoundMinutes(death_time_ms),
                        event |-> [text |-> "died together", first |-> p1_champ,
                                   second |-> p2_champ],
                        outcome |-> [text |-> "Both died within",
                                     seconds |-> AbsRoundSeconds(death_time_ms - event.timestamp)]]]
               ELSE [found |-> TRUE, hit |-> hit, co_death |-> FALSE,
                     context |->
                       [time_minutes |-> RoundMinutes(death_time_ms),
                        event |-> [text |-> "died",
                                   victim |-> IF victim_id = p1_id THEN p1_champ ELSE p2_champ],
                        outcome |-> [text |-> "got a revenge kill",
                                     avenger |-> IF victim_id = p1_id THEN p2_champ ELSE p1_champ,
                                     seconds |-> AbsRoundSeconds(event.timestamp - death_time_ms)]]]

\* a co-death that leaves processed_timestamps as it was
MarkProcessed_Never(processed_timestamps, entry, all_events) == processed_timestamps

\* processed_timestamps.add(event['timestamp']) (line 470, Case 1 only)
MarkProcessed(processed_timestamps, entry, all_events) ==
    IF entry.co_death
    THEN processed_timestamps \cup {all_events[entry.hit].timestamp}
    ELSE processed_timestamps

\* for death_event in player_deaths (lines 443-484); an element of `out` is
\* the context appended for the death at position `death` of player_deaths,
\* together with the position `hit` in all_events of the event that decided
RECURSIVE DuoDeathLoop(_, _, _, _, _, _, _)
DuoDeathLoop(all_events, player_deaths, k, p1, p2, processed_timestamps, out) ==
    IF k > Len(player_deaths) THEN out
    ELSE IF player_deaths[k].timestamp \in processed_timestamps
    THEN DuoDeathLoop(all_events, player_deaths, k + 1, p1, p2, processed_timestamps, out)
    ELSE LET entry == DuoDeathEntry(all_events, player_deaths[k], p1, p2)
         IN IF ~entry.found
            THEN DuoDeathLoop(all_events, player_deaths, k + 1, p1, p2,
                              processed_timestamps, out)
            ELSE DuoDeathLoop(all_events, player_deaths, k + 1, p1, p2,
                    MarkProcessed(processed_timestamps, entry, all_events),
                    Append(out, [death |-> k, hit |-> entry.hit,
                                 co_death |-> entry.co_death,
                                 context |-> entry.context]))

\* sorted(xs, key=lambda x: x['time_minutes']): a stable insertion sort
RECURSIVE SortedByTime(_)
SortedByTime(xs) ==
    IF xs = <<>> THEN <<>>
    ELSE LET init == SortedByTime(SubSeq(xs, 1, Len(xs) - 1))
             x == xs[Len(xs)]
             n == Cardinality({i \in DOMAIN init : init[i].time_minutes <= x.time_minutes})
         IN SubSeq(init, 1, n) \o <<x>> \o SubSeq(init, n + 1, Len(init))

\* player_deaths (line 439)
IsTrackedDeath(e, p1, p2) ==
    IsKill(e) /\ Get(e, "victimId", PyNone) \in {p1.participantId, p2.participantId}

\* the appends to shared_death_events, in the order they are made
SharedDeathEvents(tl, p1, p2) ==
    LET all_events == AllEvents(tl)
        player_deaths == SelectSeq(all_events, LAMBDA e : IsTrackedDeath(e, p1, p2))
    IN DuoDeathLoop(all_events, player_deaths, 1, p1, p2, {}, <<>>)

_analyze_duo_death_context(tl, p1, p2) ==
    LET appended == SharedDeathEvents(tl, p1, p2)
    IN SortedByTime([n \in DOMAIN appended |-> appended[n].context])

(***************************************************************************)
(* Inputs of the duo analyzers: two tracked players of one team and a      *)
(* timeline of up to MaxDuoEvents events; the match record's `kills` of a  *)
(* participant is the number of kills the timeline gives that participant. *)
(***************************************************************************)
MaxDuoEvents == 3

DuoTimes == {0, 8000, 10000, 15000}

DuoEventShapes ==
    { [type |-> "CHAMPION_KILL", killerId |-> 1, victimId |-> 6,
       assistingParticipantIds |-> <<2>>],
      [type |-> "CHAMPION_KILL", killerId |-> 2, victimId |-> 7,
       assistingParticipantIds |-> <<1>>],
      [type |-> "CHAMPION_KILL", killerId |-> 2, victimId |-> 6,
       assistingParticipantIds |-> <<>>],
      [type |-> "CHAMPION_KILL", killerId |-> 6, victimId |-> 1,
       assistingParticipantIds |-> <<7>>],
      [type |-> "CHAMPION_KILL", killerId |-> 7, victimId |-> 2,
       assistingParticipantIds |-> <<>>],
      [type |-> "CHAMPION_KILL", killerId |-> 3, victimId |-> 8,
       assistingParticipantIds |-> <<1, 2>>],
      [type |-> "ELITE_MONSTER_KILL", killerId |-> 1, killerTeamId |-> 100,
       monsterType |-> "DRAGON", monsterSubType |-> "AIR_DRAGON",
       assistingParticipantIds |-> <<2>>] }

\* the match record that goes with a timeline
MatchOf(tl) ==
    [StandardMatch EXCEPT !.info.participants =
        [i \in 1 .. 10 |->
            [Participant(i) EXCEPT !.kills =
                Cardinality({k \in DOMAIN KillEventsOf(tl) : KillEventsOf(tl)[k].killerId = i})]]]

InitDuo ==
    /\ pc = "duo"
    /\ \E n \in 0 .. MaxDuoEvents :
         \E ts \in [1 .. n -> DuoTimes] :
           \E sh \in [1 .. n -> DuoEventShapes] :
             /\ IsNonDecreasing(ts)
             /\ timeline_data = OneFrameTimeline([i \in 1 .. n |-> At(sh[i], ts[i])])
    /\ match_data = MatchOf(timeline_data)
    /\ player_participant_id = 1
    /\ \E ids \in {<<1, 2>>, <<2, 1>>} :
         /\ player1_data = match_data.info.participants[ids[1]]
         /\ player2_data = match_data.info.participants[ids[2]]
    /\ duo_report = <<>>
    /\ FightsIdle /\ LaningIdle /\ SpikesIdle /\ DeathIdle /\ MatchIdle /\ StateIdle
    /\ ObjectivesIdle /\ WorkflowIdle

\* analyze_match, lines 583-588
AnalyzeDuo ==
    /\ pc = "duo"
    /\ duo_report' =
         [kill_collaboration |->
              _analyze_duo_dynamics(match_data, timeline_data, player1_data,
                                    player2_data).kill_collaboration,
          joint_objectives |->
              _analyze_duo_dynamics(match_data, timeline_data, player1_data,
                                    player2_data).joint_objectives,
          death_context |->
              _analyze_duo_death_context(timeline_data, player1_data, player2_data)]
    /\ pc' = "duo_done"
    /\ UNCHANGED <<inputVars, player1_data, player2_data, exceptDuo>>

NextDuo == AnalyzeDuo

SpecDuo == InitDuo /\ [][NextDuo]_vars

\* C7: a "revenge kill" entry is produced for a death of one tracked player
\* only when the other tracked player kills the killer of that death inside
\* the window around the death, and its seconds are the time from the death
\* to that kill.
RevengeOnlyOnKiller ==
    pc = "duo_done" =>
        \A r \in Range(duo_report.death_context) :
            r.outcome.text = "got a revenge kill" =>
                \E d \in Range(AllEvents(timeline_data)), e \in Range(AllEvents(timeline_data)) :
                    /\ d.type = "CHAMPION_KILL" /\ e.type = "CHAMPION_KILL"
                    /\ d.victimId \in {player1_data.participantId, player2_data.participantId}
                    /\ ChampionNames[d.victimId] = r.event.victim
                    /\ RoundMinutes(d.timestamp) = r.time_minutes
                    /\ e.killerId \in {player1_data.participantId, player2_data.participantId}
                    /\ e.killerId # d.victimId
                    /\ e.victimId = d.killerId
                    /\ e.timestamp > d.timestamp - 10000
                    /\ e.timestamp < d.timestamp + 15000
                    /\ r.outcome.seconds * 1000 = e.timestamp - d.timestamp

\* C8: p1_on_p2_kills <= total_p2_kills and p2_on_p1_kills <= total_p1_kills
\* in every duo report.
KillCollaborationBounded ==
    pc = "duo_done" =>
        /\ duo_report.kill_collaboration.p1_on_p2_kills
              <= duo_report.kill_collaboration.total_p2_kills
        /\ duo_report.kill_collaboration.p2_on_p1_kills
              <= duo_report.kill_collaboration.total_p1_kills

\* each player assisted a kill of the other, and player 2 also killed without
\* the help of player 1
KillCollaborationBoundedWitness ==
    /\ pc = "duo_done"
    /\ duo_report.kill_collaboration.p2_on_p1_kills >= 1
    /\ duo_report.kill_collaboration.p1_on_p2_kills >= 1
    /\ duo_report.kill_collaboration.p1_on_p2_kills
          < duo_report.kill_collaboration.total_p2_kills

(***************************************************************************)
(* riot_api.make_api_request, as analyze_match sees it.                    *)
(*                                                                         *)
(* One call makes up to MAX_TRIES HTTP GETs.  A GET either answers with    *)
(* the JSON payload or raises a RequestException (connection error, or     *)
(* raise_for_status on an HTTP error).  backoff.on_exception retries the   *)
(* latter; when the last try fails too the exception leaves the call.      *)
(* A payload that Python takes for false (None, {}) is EmptyPayload.       *)
(***************************************************************************)
MAX_TRIES == 3

EmptyPayload == [empty |-> TRUE]

Truthy(payload) == "empty" \notin DOMAIN payload

ErrorValue == [error |-> "Failed to fetch match data."]

NoneValue == [none |-> TRUE]

IsNone(v) == "none" \in DOMAIN v

(***************************************************************************)
(* _get_player_participant_data and _find_lane_opponent                    *)
(***************************************************************************)
\* lines 13-35; list positions count from 1 here, so the sanity check
\* participantId == player_index + 1 reads participantId = player_index
_get_player_participant_data(match, puuid) ==
    LET meta == match.metadata.participants
        info == match.info.participants
    IN IF puuid \notin Range(meta) THEN NoneValue             \* ValueError, caught
       ELSE LET player_index == IndexOf(meta, puuid)
            IN IF player_index > Len(info) THEN NoneValue     \* IndexError, caught
               ELSE LET player_data == info[player_index]
                        scan == {n \in DOMAIN info : Get(info[n], "puuid", PyNone) = puuid}
                    IN IF \/ Get(player_data, "puuid", PyNone) = puuid
                          \/ Get(player_data, "participantId", 0) = player_index
                       THEN player_data
                       ELSE IF scan # {}
                       THEN info[CHOOSE n \in scan : \A m \in scan : n <= m]
                       ELSE NoneValue

\* a or b, for values that are None, '' or a non-empty string
PyOr(a, b) == IF a \in {PyNone, ""} THEN b ELSE a

PositionOf(p) ==
    PyOr(Get(p, "teamPosition", PyNone), Get(p, "individualPosition", PyNone))

\* lines 37-49
_find_lane_opponent(all_participants, player_data) ==
    LET player_position == PositionOf(player_data)
        player_team_id == Get(player_data, "teamId", 0)
        hits == {n \in DOMAIN all_participants :
                    /\ Get(all_participants[n], "teamId", 0) # player_team_id
                    /\ PositionOf(all_participants[n]) = player_position}
    IN IF player_position \in {PyNone, ""} \/ player_team_id = 0 \/ hits = {}
       THEN NoneValue
       ELSE all_participants[CHOOSE n \in hits : \A m \in hits : n <= m]

(***************************************************************************)
(* analyze_match, lines 522-664, once both fetches are over                *)
(***************************************************************************)
\* d[key] = value on a dict kept as the sequence of its items
DictSet(d, key, value) ==
    IF \E n \in DOMAIN d : d[n].key = key
    THEN [n \in DOMAIN d |-> IF d[n].key = key THEN [key |-> key, value |-> value] ELSE d[n]]
    ELSE Append(d, [key |-> key, value |-> value])

\* {**a, **b}
Merge(a, b) ==
    [k \in DOMAIN a \cup DOMAIN b |-> IF k \in DOMAIN b THEN b[k] ELSE a[k]]

\* lines 525-531
RECURSIVE AllPlayerData(_, _, _, _)
AllPlayerData(match, puuids, i, acc) ==
    IF i > Len(puuids) THEN acc
    ELSE LET player_data == _get_player_participant_data(match, puuids[i])
         IN IF IsNone(player_data) THEN AllPlayerData(match, puuids, i + 1, acc)
            ELSE AllPlayerData(match, puuids, i + 1, DictSet(acc, puuids[i], player_data))

\* lines 539-550
PlayerSummary(player_data) ==
    [championName |-> Get(player_data, "championName", PyNone),
     lane |-> PyOr(Get(player_data, "teamPosition", PyNone), Get(player_data, "lane", PyNone)),
     kills |-> Get(player_data, "kills", PyNone),
     deaths |-> Get(player_data, "deaths", PyNone),
     assists |-> Get(player_data, "assists", PyNone),
     win |-> Get(player_data, "win", PyNone),
     kda |-> Get(Get(player_data, "challenges", EmptyDict), "kda", PyNone),
     killParticipation |->
         Get(Get(player_data, "challenges", EmptyDict), "killParticipation", PyNone),
     totalDamageDealtToChampions |-> Get(player_data, "totalDamageDealtToChampions", PyNone),
     visionScore |-> Get(player_data, "visionScore", PyNone)]

\* lines 552-572: the sections that need the timeline
TimelineSections(match, tl, player_data, spikes) ==
    LET opponent_data == _find_lane_opponent(match.info.participants, player_data)
        pid == player_data.participantId
    IN Merge(IF IsNone(opponent_data) THEN EmptyDict
             ELSE [laning_phase |->
                      _analyze_laning_phase(tl, pid, opponent_data.participantId)],
             [team_fights |->
                  _consolidate_fights_into_engagements(_analyze_teamfights(tl, pid)),
              objectives |-> _analyze_objectives(tl),
              death_analysis |-> _generate_death_analysis(tl, match, pid, spikes)])

\* if timeline_data: ... (line 552)
SectionsWithoutTimeline(match, tl, player_data, spikes) == EmptyDict

\* lines 535-574 for one player
PlayerReport(match, tl, player_data, spikes) ==
    Merge([player_summary |-> PlayerSummary(player_data)],
          IF Truthy(tl) THEN TimelineSections(match, tl, player_data, spikes)
          ELSE SectionsWithoutTimeline(match, tl, player_data, spikes))

\* lines 534-574: individual_reports[player_champion] = analysis
RECURSIVE IndividualReports(_, _, _, _, _, _)
IndividualReports(match, tl, all_player_data, spikes, i, acc) ==
    IF i > Len(all_player_data) THEN acc
    ELSE LET player_data == all_player_data[i].value
         IN IndividualReports(match, tl, all_player_data, spikes, i + 1,
                DictSet(acc, Get(player_data, "championName", "Unknown"),
                        PlayerReport(match, tl, player_data, spikes)))

\* lines 577-588
DuoReport(match, tl, all_player_data) ==
    IF Len(all_player_data) = 2 /\ Truthy(tl)
    THEN Merge(_analyze_duo_dynamics(match, tl, all_player_data[1].value,
                                     all_player_data[2].value),
               [death_context |->
                    _analyze_duo_death_context(tl, all_player_data[1].value,
                                               all_player_data[2].value)])
    ELSE NoneValue

\* the analyzers that lines 523-588 execute
AnalyzersExecuted(match, tl, all_player_data) ==
    IF ~Truthy(tl) THEN {}
    ELSE {"_track_power_spikes"}
         \cup (IF all_player_data # <<>>
               THEN {"_analyze_teamfights", "_consolidate_fights_into_engagements",
                     "_analyze_objectives", "_generate_death_analysis"}
               ELSE {})
         \cup (IF \E n \in DOMAIN all_player_data :
                     ~IsNone(_find_lane_opponent(match.info.participants,
                                                 all_player_data[n].value))
               THEN {"_analyze_laning_phase"} ELSE {})
         \cup (IF Len(all_player_data) = 2
               THEN {"_analyze_duo_dynamics", "_analyze_duo_death_context"} ELSE {})

\* lines 522-664: the value analyze_match returns, or the exception of the
\* printing part: with a duo report, line 632 reads the second key of
\* individual_reports
AnalysisOutcome(match_id, match, tl, puuids) ==
    LET spikes == IF Truthy(tl) THEN _track_power_spikes(tl) ELSE EmptyDict
        all_player_data == AllPlayerData(match, puuids, 1, <<>>)
        individual_reports == IndividualReports(match, tl, all_player_data, spikes, 1, <<>>)
        duo == DuoReport(match, tl, all_player_data)
    IN IF ~IsNone(duo) /\ Len(individual_reports) < 2
       THEN [kind |-> "raised", exc |-> "IndexError"]
       ELSE [kind |-> "returned",
             value |-> [match_id |-> match_id,
                        individual_reports |-> individual_reports,
                        duo_report |-> duo]]

FriendInMatch_PrimaryToo(friend_puuid, match_participant_puuids, primary) ==
    friend_puuid \in Range(match_participant_puuids)

\* run_match_analysis_dynamically, line 693
FriendInMatch(friend_puuid, match_participant_puuids, primary) ==
    friend_puuid \in Range(match_participant_puuids) /\ friend_puuid # primary

\* run_match_analysis_dynamically, lines 688-699
RECURSIVE FirstFriend(_, _, _, _)
FirstFriend(friends, i, match_participant_puuids, primary) ==
    IF i > Len(friends) THEN <<>>
    ELSE IF FriendInMatch(friends[i], match_participant_puuids, primary)
    THEN <<friends[i]>>
    ELSE FirstFriend(friends, i + 1, match_participant_puuids, primary)

DynamicPuuids(match, primary, friends) ==
    <<primary>> \o FirstFriend(friends, 1, match.metadata.participants, primary)

(***************************************************************************)
(* Inputs of the match orchestrator                                        *)
(***************************************************************************)
MaxTracked == 2
MaxFriends == 2

MATCH_ID == "NA1_1"

\* a blind-pick game in which participant 6 plays the champion of participant 1
MirrorMatch ==
    [StandardMatch EXCEPT !.info.participants[6].championName = ChampionNames[1]]

\* metadata.participants lists the first two players in the other order than
\* info.participants (Riot documents the same order but does not guarantee it)
ShuffledMatch ==
    [StandardMatch EXCEPT !.metadata.participants =
        [i \in 1 .. 10 |-> IF i = 1 THEN PuuidOf(2) ELSE IF i = 2 THEN PuuidOf(1)
                           ELSE PuuidOf(i)]]

MatchPayloads == {EmptyPayload, StandardMatch, MirrorMatch, ShuffledMatch}

FullParticipantFrames ==
    [k \in Range(IdKeys) |->
        LET id == CHOOSE i \in 1 .. 10 : ToStr(i) = k
        IN [participantId |-> id, totalGold |-> 1000 + 100 * id,
            minionsKilled |-> 10 * id, jungleMinionsKilled |-> 0,
            position |-> [x |-> 1000 * id, y |-> 1000]]]

SampleEvents ==
    << [type |-> "CHAMPION_KILL", timestamp |-> 30000, killerId |-> 6, victimId |-> 1,
        assistingParticipantIds |-> <<7>>],
       [type |-> "CHAMPION_KILL", timestamp |-> 35000, killerId |-> 2, victimId |-> 6,
        assistingParticipantIds |-> <<1>>],
       [type |-> "CHAMPION_KILL", timestamp |-> 40000, killerId |-> 1, victimId |-> 7,
        assistingParticipantIds |-> <<2>>],
       [type |-> "ELITE_MONSTER_KILL", timestamp |-> 50000, killerId |-> 2,
        killerTeamId |-> 100, monsterType |-> "DRAGON", monsterSubType |-> "FIRE_DRAGON",
        assistingParticipantIds |-> <<1>>] >>

SampleTimeline(n, evs) ==
    [info |-> [frames |-> [i \in 1 .. n |->
        [timestamp |-> 60000 * (i - 1), participantFrames |-> FullParticipantFrames,
         events |-> IF i = 1 THEN evs ELSE <<>>]]]]

TimelinePayloads ==
    {EmptyPayload} \cup {SampleTimeline(n, evs) : n \in {2, 12}, evs \in {<<>>, SampleEvents}}

Puuids == {PuuidOf(1), PuuidOf(2), PuuidOf(6), "puuid-stranger"}

SeqsUpTo(S, n) == UNION {[1 .. k -> S] : k \in 0 .. n}

InitMatch ==
    /\ riot \in [match : MatchPayloads, timeline : TimelinePayloads]
    /\ \/ /\ entry_point = "analyze_match"
          /\ pc = "fetch_match"
          /\ puuids_to_analyze \in SeqsUpTo(Puuids, MaxTracked)
          /\ primary_puuid = ""
          /\ all_friends_puuids = <<>>
       \/ /\ entry_point = "run_match_analysis_dynamically"
          /\ pc = "dynamic_fetch_match"
          /\ puuids_to_analyze = <<>>
          /\ primary_puuid \in Puuids
          /\ all_friends_puuids \in SeqsUpTo(Puuids, MaxFriends)
    /\ request = [url |-> "match", tries |-> 0]
    /\ requests_log = <<>>
    /\ fetch_failed = {}
    /\ analyzers_run = {}
    /\ outcome = [kind |-> "pending"]
    /\ match_data = EmptyPayload
    /\ timeline_data = EmptyPayload
    /\ player_participant_id = 0
    /\ FightsIdle /\ LaningIdle /\ SpikesIdle /\ DeathIdle /\ DuoIdle /\ StateIdle
    /\ ObjectivesIdle /\ WorkflowIdle

FetchPcs == {"dynamic_fetch_match", "fetch_match", "fetch_timeline"}

GiveUp_OneTryMore(tries, max_time_exceeded) == tries > MAX_TRIES \/ max_time_exceeded

\* backoff.on_exception(..., max_tries=3, max_time=60), line 20: after the
\* failure of try number `tries` the call gives up and re-raises
GiveUp(tries, max_time_exceeded) == tries = MAX_TRIES \/ max_time_exceeded

\* whether 60 s have gone by when try number `tries` starts: never at the
\* first try; later it depends on how long the GETs before it took
MaxTimeExceeded(tries) == IF tries = 1 THEN {FALSE} ELSE BOOLEAN

\* an HTTP GET raises; the call retries, or gives up at the third failure and
\* the exception leaves make_api_request and its caller, which has no handler
GetFails ==
    /\ pc \in FetchPcs
    /\ requests_log' = Append(requests_log, request.url)
    /\ \E max_time_exceeded \in MaxTimeExceeded(request.tries + 1) :
         IF ~GiveUp(request.tries + 1, max_time_exceeded)
         THEN /\ request' = [request EXCEPT !.tries = @ + 1]
              /\ UNCHANGED <<pc, outcome, fetch_failed>>
         ELSE /\ pc' = "raised"
              /\ outcome' = [kind |-> "raised", exc |-> "RequestException"]
              /\ fetch_failed' = fetch_failed \cup {request.url}
              /\ UNCHANGED request
    /\ UNCHANGED <<inputVars, callVars, analyzers_run, exceptMatch>>

ReturnFetchError ==
    /\ pc' = "returned"
    /\ outcome' = [kind |-> "returned", value |-> ErrorValue]
    /\ fetch_failed' = fetch_failed \cup {"match"}

\* run_match_analysis_dynamically, lines 683-702: the GET answers
DynamicMatchFetched ==
    /\ pc = "dynamic_fetch_match"
    /\ requests_log' = Append(requests_log, request.url)
    /\ IF ~Truthy(riot.match)
       THEN /\ ReturnFetchError
            /\ UNCHANGED <<puuids_to_analyze, request>>
       ELSE /\ puuids_to_analyze' = DynamicPuuids(riot.match, primary_puuid, all_friends_puuids)
            /\ pc' = "fetch_match"
            /\ request' = [url |-> "match", tries |-> 0]
            /\ UNCHANGED <<outcome, fetch_failed>>
    /\ UNCHANGED <<inputVars, entry_point, primary_puuid, all_friends_puuids, riot,
                   analyzers_run, exceptMatch>>

\* analyze_match, lines 511-514: the GET answers
MatchFetched ==
    /\ pc = "fetch_match"
    /\ requests_log' = Append(requests_log, request.url)
    /\ match_data' = riot.match
    /\ IF ~Truthy(riot.match)
       THEN /\ ReturnFetchError
            /\ UNCHANGED request
       ELSE /\ pc' = "fetch_timeline"
            /\ request' = [url |-> "timeline", tries |-> 0]
            /\ UNCHANGED <<outcome, fetch_failed>>
    /\ UNCHANGED <<timeline_data, callVars, analyzers_run, exceptMatch>>

\* analyze_match, lines 517-520: the GET answers
TimelineFetched ==
    /\ pc = "fetch_timeline"
    /\ requests_log' = Append(requests_log, request.url)
    /\ timeline_data' = riot.timeline
    /\ fetch_failed' = IF Truthy(riot.timeline) THEN fetch_failed
                       ELSE fetch_failed \cup {"timeline"}
    /\ pc' = "analyze"
    /\ UNCHANGED <<match_data, callVars, request, analyzers_run, outcome, exceptMatch>>

\* analyze_match, lines 522-664
Analyze ==
    /\ pc = "analyze"
    /\ analyzers_run' = AnalyzersExecuted(match_data, timeline_data,
                                          AllPlayerData(match_data, puuids_to_analyze, 1, <<>>))
    /\ outcome' = AnalysisOutcome(MATCH_ID, match_data, timeline_data, puuids_to_analyze)
    /\ pc' = outcome'.kind
    /\ UNCHANGED <<inputVars, callVars, request, requests_log, fetch_failed, exceptMatch>>

NextMatch == GetFails \/ DynamicMatchFetched \/ MatchFetched \/ TimelineFetched \/ Analyze

SpecMatch == InitMatch /\ [][NextMatch]_vars

(***************************************************************************)
(* Claims about the match orchestrator                                     *)
(***************************************************************************)
Finished == pc \in {"returned", "raised"}

\* the positions of puuids_to_analyze that name a participant of the match
ResolvablePositions ==
    {n \in DOMAIN puuids_to_analyze :
        puuids_to_analyze[n] \in Range(match_data.metadata.participants)}

\* C1: when the match payload cannot be fetched (the request fails after its
\* retries, or answers with an empty payload), the call returns the value
\* {error: "Failed to fetch match data."} instead of raising, no timeline
\* request was issued and no analyzer was executed.
MatchFetchFailureReturnsError ==
    "match" \in fetch_failed =>
        /\ outcome = [kind |-> "returned", value |-> ErrorValue]
        /\ "timeline" \notin Range(requests_log)
        /\ analyzers_run = {}

\* C2: after analyze_match the number of entries of individual_reports is
\* len(puuids_to_analyze) minus the number of PUUIDs that are not participants
\* of the match.
ReportCountMatchesResolvable ==
    (pc = "returned" /\ "individual_reports" \in DOMAIN outcome.value) =>
        Len(outcome.value.individual_reports) =
            Len(puuids_to_analyze)
            - Cardinality(DOMAIN puuids_to_analyze \ ResolvablePositions)

\* C10: when the match payload is fetched but the timeline fetch fails,
\* analyze_match returns a report, neither an error value nor an exception,
\* in which every resolvable tracked player has an individual report that
\* holds player_summary and none of the timeline sections, and there is no
\* duo report.
TimelineFailureDegrades ==
    (Finished /\ "match" \notin fetch_failed /\ "timeline" \in fetch_failed) =>
        /\ outcome.kind = "returned"
        /\ "error" \notin DOMAIN outcome.value
        /\ \A n \in ResolvablePositions :
              LET player_data ==
                      _get_player_participant_data(match_data, puuids_to_analyze[n])
                  reports == outcome.value.individual_reports
              IN \E r \in DOMAIN reports :
                    /\ reports[r].key = player_data.championName
                    /\ "player_summary" \in DOMAIN reports[r].value
                    /\ DOMAIN reports[r].value
                           \cap {"laning_phase", "team_fights", "objectives",
                                 "death_analysis"} = {}
        /\ IsNone(outcome.value.duo_report)


\* the analysis part of analyze_match (lines 522-664) has run to its end
Analyzed ==
    /\ Finished
    /\ "match" \notin fetch_failed
    /\ ~(outcome.kind = "raised" /\ outcome.exc = "RequestException")

\* the tracked PUUIDs that are participants of the match
ResolvedPuuids == {puuids_to_analyze[n] : n \in ResolvablePositions}

\* C11: analyze_match produces a duo_report if and only if exactly two of
\* the tracked PUUIDs are resolved to participants of the match and the
\* timeline payload is present; otherwise duo_report stays None.
DuoReportIffTwoResolved ==
    Analyzed =>
        ((outcome.kind = "returned" /\ ~IsNone(outcome.value.duo_report))
            <=> (Cardinality(ResolvedPuuids) = 2 /\ Truthy(timeline_data)))


\* all_friends_puuids[i] played the match and is not the primary player
EligibleFriend(i) ==
    /\ all_friends_puuids[i] \in Range(riot.match.metadata.participants)
    /\ all_friends_puuids[i] # primary_puuid

\* C12: the list run_match_analysis_dynamically hands to analyze_match starts
\* with the primary PUUID and holds at most one more PUUID: the first element
\* of all_friends_puuids that is a participant of the match and is not the
\* primary PUUID; without such an element it holds the primary PUUID only.
DynamicListIsPrimaryPlusFirstFriend ==
    [][(pc = "dynamic_fetch_match" /\ pc' = "fetch_match") =>
          /\ Len(puuids_to_analyze') \in {1, 2}
          /\ puuids_to_analyze'[1] = primary_puuid
          /\ Len(puuids_to_analyze') = 2 <=> \E i \in DOMAIN all_friends_puuids : EligibleFriend(i)
          /\ Len(puuids_to_analyze') = 2 =>
                \E i \in DOMAIN all_friends_puuids :
                    /\ EligibleFriend(i)
                    /\ \A j \in 1 .. i - 1 : ~EligibleFriend(j)
                    /\ puuids_to_analyze'[2] = all_friends_puuids[i]]_vars

\* the friends list names the primary player first and a participant second:
\* the second one joined the analysis
DynamicListIsPrimaryPlusFirstFriendWitness ==
    /\ entry_point = "run_match_analysis_dynamically"
    /\ pc = "fetch_match"
    /\ Len(all_friends_puuids) = 2
    /\ all_friends_puuids[1] = primary_puuid
    /\ primary_puuid \in Range(riot.match.metadata.participants)
    /\ puuids_to_analyze = <<primary_puuid, all_friends_puuids[2]>>


\* what one HTTP GET of a make_api_request call may do
GetStep ==
    /\ request.tries < 3
    /\ requests_log' = Append(requests_log, request.url)
    /\ \/ /\ pc' = pc                                  \* the GET failed: next try
          /\ request.tries < 2
          /\ request' = [request EXCEPT !.tries = @ + 1]
          /\ UNCHANGED <<match_data, timeline_data, outcome>>
       \/ /\ pc' = "raised"                            \* the GET failed: re-raise
          /\ outcome' = [kind |-> "raised", exc |-> "RequestException"]
          /\ UNCHANGED <<match_data, timeline_data>>
       \/ /\ pc' \notin {pc, "raised"}                 \* the GET answered
          /\ (pc = "fetch_match") => (match_data' = riot.match)
          /\ (pc = "fetch_timeline") => (timeline_data' = riot.timeline)
          /\ (pc' \in FetchPcs) => (request'.tries = 0)

\* C13: a call of make_api_request makes at most 3 HTTP GETs: it hands back
\* the JSON of the first GET that answers, tries again only after a GET
\* failed, and after the third failed GET it ends by raising the exception.
AtMostThreeAttempts == [][(pc \in FetchPcs) => GetStep]_vars

\* a call that ended by raising after three GETs of the same url
AtMostThreeAttemptsWitness ==
    /\ pc = "raised"
    /\ requests_log = <<"match", "timeline", "timeline", "timeline">>
    /\ request.tries = 2

(***************************************************************************)
(* riot_api.get_matches_played_today                                       *)
(*                                                                         *)
(* riot.match_ids is the list the match-ids endpoint answers with; a GET   *)
(* may instead fail with a RequestException (raise_for_status on an HTTP   *)
(* error, or a connection error).                                          *)
(***************************************************************************)
MaxIds == 3

MatchIdValues == {"NA1_123", "NA1_456", "NA1_789"}

\* the value of line 95 (and 99)
ERROR_RETURN == 0

InitToday ==
    /\ pc = "today_fetch"
    /\ entry_point = "get_matches_played_today"
    /\ primary_puuid \in {"puuid-1"}
    /\ riot \in [match_ids : SeqsUpTo(MatchIdValues, MaxIds)]
    /\ request = [url |-> "match_ids", tries |-> 0]
    /\ requests_log = <<>>
    /\ fetch_failed = {}
    /\ outcome = [kind |-> "pending"]
    /\ all_friends_puuids = <<>> /\ puuids_to_analyze = <<>> /\ analyzers_run = {}
    /\ timeline_data = NoTimeline /\ match_data = NoMatch /\ player_participant_id = 0
    /\ FightsIdle /\ LaningIdle /\ SpikesIdle /\ DeathIdle /\ DuoIdle /\ StateIdle
    /\ ObjectivesIdle /\ WorkflowIdle

\* line 84 raises: make_api_request tries again, or gives up and the
\* RequestException is caught at line 92
TodayGetFails ==
    /\ pc = "today_fetch"
    /\ requests_log' = Append(requests_log, request.url)
    /\ \E max_time_exceeded \in MaxTimeExceeded(request.tries + 1) :
         IF ~GiveUp(request.tries + 1, max_time_exceeded)
         THEN /\ request' = [request EXCEPT !.tries = @ + 1]
              /\ UNCHANGED <<pc, outcome, fetch_failed>>
         ELSE /\ pc' = "returned"
              /\ outcome' = [kind |-> "returned", value |-> ERROR_RETURN]
              /\ fetch_failed' = fetch_failed \cup {request.url}
              /\ UNCHANGED request
    /\ UNCHANGED <<inputVars, callVars, analyzers_run, exceptMatch>>

\* lines 84-90: the GET answers
TodayAnswered ==
    /\ pc = "today_fetch"
    /\ requests_log' = Append(requests_log, request.url)
    /\ pc' = "returned"
    /\ outcome' = [kind |-> "returned", value |-> Len(riot.match_ids)]
    /\ UNCHANGED <<request, fetch_failed, inputVars, callVars, analyzers_run, exceptMatch>>

NextToday == TodayGetFails \/ TodayAnswered

SpecToday == InitToday /\ [][NextToday]_vars

\* C14: get_matches_played_today returns the number of match ids of the
\* response when the request succeeds, and -1, without raising, when the
\* Riot API answers with an HTTP error.
MatchesTodayCountOrMinusOne ==
    pc # "today_fetch" =>
        /\ outcome.kind = "returned"
        /\ outcome.value = IF "match_ids" \in fetch_failed THEN -1
                           ELSE Len(riot.match_ids)


(***************************************************************************)
(* The team_fights section of a report: fights found on a timeline and     *)
(* consolidated, and lists of fights consolidated and consolidated again.  *)
(***************************************************************************)
InitTeamFights == InitFights \/ InitEngagements

NextTeamFights == AnalyzeTeamfights \/ Consolidate \/ Reconsolidate

SpecTeamFights == InitTeamFights /\ [][NextTeamFights]_vars

\* 'None', or the ', '-joined sorted list of a non-empty subset of
\* {Assist, Death, Kill}
InvolvementStrings ==
    { <<"None">>, <<"Assist">>, <<"Death">>, <<"Kill">>,
      <<"Assist", "Death">>, <<"Assist", "Kill">>, <<"Death", "Kill">>,
      <<"Assist", "Death", "Kill">> }

\* C15: the report holds JSON-native values only: player_involvement of
\* every fight and engagement is never a set but the string 'None' or the
\* ', '-joined, alphabetically sorted list of a non-empty subset of
\* {Assist, Death, Kill}.
InvolvementIsJoinedString ==
    /\ \A i \in DOMAIN fights : fights[i].player_involvement \in InvolvementStrings
    /\ \A i \in DOMAIN engagements : engagements[i].player_involvement \in InvolvementStrings
    /\ \A i \in DOMAIN re_engagements :
          re_engagements[i].player_involvement \in InvolvementStrings

\* a fight without the player was merged with fights in which the player
\* killed and died
InvolvementIsJoinedStringWitness ==
    /\ pc = "consolidated"
    /\ Len(fights) = 3 /\ Len(engagements) = 1
    /\ fights[1].player_involvement = <<"None">>
    /\ engagements[1].player_involvement = <<"Death", "Kill">>


\* C16: once the match and timeline payloads have been fetched, analyze_match
\* raises no exception, whatever the tracked PUUIDs, the length of the
\* timeline and the champions of the tracked players: it returns a report.
NoExceptionOnceFetched ==
    (Finished /\ fetch_failed = {}) =>
        /\ outcome.kind = "returned"
        /\ "individual_reports" \in DOMAIN outcome.value


(***************************************************************************)
(* state_manager: the application state kept in instance/app_state.yml     *)
(* (the definitions of lines 89-116; save_state of line 97 replaces the    *)
(* one of line 46 when the module is loaded).                              *)
(*                                                                         *)
(* A state is a dict from check-in types to timestamps; timestamps are     *)
(* the ticks of a clock that utcnow() reads.                               *)
(***************************************************************************)
MaxClock == 2

CheckinTypes == {"league_checkin", "test_checkin"}

StateDicts == UNION {[K -> 0 .. MaxClock] : K \in SUBSET CheckinTypes}

NoFile == [exists |-> FALSE]

\* lines 93-95: return {}
get_state(file) == EmptyDict

\* lines 97-105: the file after yaml.safe_dump(new_state, f)
save_state(new_state) == [exists |-> TRUE, content |-> new_state]

\* lines 107-110: state.get(checkin_type)
get_last_checkin_time(file, checkin_type) ==
    LET state == get_state(file)
    IN IF checkin_type \in DOMAIN state THEN [value |-> state[checkin_type]] ELSE NoneValue

\* lines 112-116: the file after the update
update_last_checkin_time(file, checkin_type, now) ==
    LET state == get_state(file)
    IN save_state([k \in DOMAIN state \cup {checkin_type} |->
                      IF k = checkin_type THEN now ELSE state[k]])

InitState ==
    /\ pc = "state_manager"
    /\ state_file = NoFile
    /\ utc_now = 0
    /\ state_call = [op |-> "none"]
    /\ state_result = NoneValue
    /\ timeline_data = NoTimeline /\ match_data = NoMatch /\ player_participant_id = 0
    /\ FightsIdle /\ LaningIdle /\ SpikesIdle /\ DeathIdle /\ DuoIdle /\ MatchIdle
    /\ ObjectivesIdle /\ WorkflowIdle

SaveState ==
    \E new_state \in StateDicts :
        /\ state_call' = [op |-> "save_state", arg |-> new_state]
        /\ state_file' = save_state(new_state)
        /\ state_result' = NoneValue
        /\ UNCHANGED <<utc_now, exceptState>>

GetState ==
    /\ state_call' = [op |-> "get_state"]
    /\ state_result' = get_state(state_file)
    /\ UNCHANGED <<state_file, utc_now, exceptState>>

GetLastCheckinTime ==
    \E checkin_type \in CheckinTypes :
        /\ state_call' = [op |-> "get_last_checkin_time", arg |-> checkin_type]
        /\ state_result' = get_last_checkin_time(state_file, checkin_type)
        /\ UNCHANGED <<state_file, utc_now, exceptState>>

\* time passes between two calls of utcnow()
UpdateLastCheckinTime ==
    \E checkin_type \in CheckinTypes :
        /\ utc_now < MaxClock
        /\ state_call' = [op |-> "update_last_checkin_time", arg |-> checkin_type]
        /\ state_file' = update_last_checkin_time(state_file, checkin_type, utc_now)
        /\ utc_now' = utc_now + 1
        /\ state_result' = NoneValue
        /\ UNCHANGED exceptState

NextState == SaveState \/ GetState \/ GetLastCheckinTime \/ UpdateLastCheckinTime

SpecState == InitState /\ [][NextState]_vars

\* what the last save_state or update_last_checkin_time stored
StoredState == IF state_file.exists THEN state_file.content ELSE EmptyDict

\* C17: the state manager round-trips: get_state() returns the state last
\* saved, and get_last_checkin_time(k) returns the timestamp stored for k
\* (None only when none was stored).
StateRoundTrips ==
    /\ state_call.op = "get_state" => state_result = StoredState
    /\ state_call.op = "get_last_checkin_time" =>
          state_result = IF state_call.arg \in DOMAIN StoredState
                         THEN [value |-> StoredState[state_call.arg]]
                         ELSE NoneValue


(***************************************************************************)
(* Fight clustering on longer timelines: a set of deaths (time, victim),   *)
(* listed in chronological order.                                          *)
(***************************************************************************)
MaxDeaths == 6

DeathGrid == {0, 10000, 20000, 20200, 40000, 40400}

DeathVictims == {1, 6}

\* the kill events of a set of deaths, by timestamp and then by victim
RECURSIVE ChronologicalKills(_)
ChronologicalKills(deaths) ==
    IF deaths = {} THEN <<>>
    ELSE LET d == CHOOSE x \in deaths :
                      \A y \in deaths : x[1] < y[1] \/ (x[1] = y[1] /\ x[2] <= y[2])
         IN <<KillEvent(d[1], [killerId |-> IF d[2] <= 5 THEN 6 ELSE 1, victimId |-> d[2],
                               assistingParticipantIds |-> <<>>])>>
            \o ChronologicalKills(deaths \ {d})

InitClustering ==
    /\ pc = "teamfights"
    /\ \E deaths \in SUBSET (DeathGrid \X DeathVictims) :
         /\ Cardinality(deaths) <= MaxDeaths
         /\ timeline_data = OneFrameTimeline(ChronologicalKills(deaths))
    /\ player_participant_id = 1
    /\ match_data = NoMatch
    /\ FightsIdle
    /\ LaningIdle /\ SpikesIdle /\ DeathIdle /\ DuoIdle /\ MatchIdle /\ StateIdle
    /\ ObjectivesIdle /\ WorkflowIdle

NextClustering == AnalyzeTeamfights \/ Consolidate

SpecClustering == InitClustering /\ [][NextClustering]_vars

\* C18: fight clustering uses anchored, non-overlapping windows: every fight
\* is made of at least 3 CHAMPION_KILL events that all lie within 20 seconds
\* of its first kill, no kill is counted in two fights (so the kill totals of
\* the fights never exceed the number of kill events), and a kill absorbed
\* into a fight never opens a fight of its own.
AnchoredDisjointFights ==
    pc = "consolidate" =>
        LET kill_events == KillEventsOf(timeline_data)
            first(k) == CHOOSE i \in clusters[k] : \A j \in clusters[k] : i <= j
        IN /\ Len(clusters) = Len(fights)
           /\ \A k \in DOMAIN fights :
                 /\ Cardinality(clusters[k]) >= 3
                 /\ fights[k].blue_team_kills + fights[k].red_team_kills
                       = Cardinality(clusters[k])
                 /\ fights[k].start_time_minutes
                       = RoundMinutes(kill_events[first(k)].timestamp)
                 /\ \A j \in clusters[k] :
                       /\ kill_events[j].timestamp >= kill_events[first(k)].timestamp
                       /\ kill_events[j].timestamp
                             <= kill_events[first(k)].timestamp + 20000
           /\ \A k \in DOMAIN fights : \A l \in DOMAIN fights :
                 k # l => clusters[k] \cap clusters[l] = {}
           /\ Cardinality(UNION {clusters[k] : k \in DOMAIN fights}) <= Len(kill_events)
           /\ \A k \in DOMAIN fights : \A l \in DOMAIN fights :
                 k < l => \A j \in clusters[k] : j < first(l)

\* two fights: the kill 20.2 s after the first kill of the first fight was
\* left out of it and opens the second one
AnchoredDisjointFightsWitness ==
    /\ pc = "consolidate"
    /\ Len(fights) = 2
    /\ clusters[1] = {1, 2, 3}
    /\ KillEventsOf(timeline_data)[1].timestamp = 0
    /\ KillEventsOf(timeline_data)[3].timestamp = 20000
    /\ KillEventsOf(timeline_data)[4].timestamp = 20200
    /\ 4 \in clusters[2]

\* the positions i at which fight i + 1 starts more than 0.75 minutes after
\* fight i
WideGaps ==
    {i \in 1 .. Len(fights) - 1 :
        fights[i + 1].start_time_minutes - fights[i].start_time_minutes > 75}

\* C19: two chronologically adjacent fights whose start times differ by at
\* most 0.75 minutes end up in the same engagement, and two adjacent fights
\* more than 0.75 minutes apart end up in different engagements: an
\* engagement ends exactly at each gap of more than 0.75 minutes.
AdjacentFightsMerged ==
    (pc = "consolidated" /\ fights # <<>>) =>
        /\ Len(engagements) = 1 + Cardinality(WideGaps)
        /\ \A k \in 2 .. Len(engagements) :
              \E i \in WideGaps :
                  engagements[k].start_time_minutes = fights[i + 1].start_time_minutes


\* the kills of one colour in the fights at the positions S
RECURSIVE KillsIn(_, _)
KillsIn(S, colour) ==
    IF S = {} THEN 0
    ELSE LET i == CHOOSE x \in S : TRUE
         IN fights[i][colour] + KillsIn(S \ {i}, colour)

\* the tokens of the fights at the positions S, 'None' left out
InvolvementIn(S) == UNION {Range(fights[i].player_involvement) : i \in S} \ {"None"}

\* the engagements are the fights cut into runs: run k starts at fight
\* first[k], and engagement k carries the start time of that fight, the kill
\* sums of the run and the union of its involvement sets
IsMergeOfRuns(first) ==
    /\ first[1] = 1
    /\ \A k \in 1 .. Len(engagements) - 1 : first[k] < first[k + 1]
    /\ \A k \in DOMAIN engagements :
          LET run == first[k] .. (IF k = Len(engagements) THEN Len(fights)
                                  ELSE first[k + 1] - 1)
          IN /\ engagements[k].start_time_minutes = fights[first[k]].start_time_minutes
             /\ engagements[k].blue_team_kills = KillsIn(run, "blue_team_kills")
             /\ engagements[k].red_team_kills = KillsIn(run, "red_team_kills")
             /\ Range(engagements[k].player_involvement) =
                   IF InvolvementIn(run) = {} THEN {"None"} ELSE InvolvementIn(run)

\* C20: consolidation conserves the fights' content: the engagements are in
\* chronological order and no more numerous than the fights, the blue and
\* red kill sums over the engagements equal those over the fights, each
\* engagement starts when the first fight merged into it starts, and its
\* player_involvement is the union of the involvement of its fights.
ConsolidationConserves ==
    pc = "consolidated" =>
        /\ Len(engagements) <= Len(fights)
        /\ (fights = <<>>) <=> (engagements = <<>>)
        /\ \A k \in 1 .. Len(engagements) - 1 :
              engagements[k].start_time_minutes <= engagements[k + 1].start_time_minutes
        /\ fights # <<>> =>
              \E first \in [DOMAIN engagements -> DOMAIN fights] : IsMergeOfRuns(first)

\* three fights became two engagements, the first one merged from a fight
\* with a kill and a fight with a death of the player
ConsolidationConservesWitness ==
    /\ pc = "consolidated"
    /\ Len(fights) = 3 /\ Len(engagements) = 2
    /\ fights[1].player_involvement = <<"Kill">>
    /\ fights[2].player_involvement = <<"Death">>
    /\ engagements[1].player_involvement = <<"Death", "Kill">>
    /\ engagements[1].blue_team_kills = 3
    /\ engagements[1].red_team_kills = 4

(***************************************************************************)
(* Frame of the consolidation                                              *)
(***************************************************************************)

\* what a caller can observe of the list xs after a call that started with
\* the list as before: same length and order, every record with the same fields;
\* cells tells whether the call assigned None to a record's kills
SameFights(before, after, cells) ==
    /\ Len(after) = Len(before)
    /\ \A i \in 1 .. Len(before) :
          /\ after[i].start_time_minutes = before[i].start_time_minutes
          /\ after[i].blue_team_kills = before[i].blue_team_kills
          /\ after[i].red_team_kills = before[i].red_team_kills
          /\ after[i].player_involvement = before[i].player_involvement
          /\ ~cells[i].kills_none
          /\ after[i].kills = before[i].kills

\* C21: _consolidate_fights_into_engagements leaves its input unchanged: after
\* the call the list has the same length and order, and every record in it has
\* the same start_time_minutes, kills, blue_team_kills, red_team_kills and
\* player_involvement as before, also for fights merged into an engagement.
ConsolidateLeavesInput ==
    [][/\ pc = "consolidate" => SameFights(fights, fights', InputCellsAfter(fights))
       /\ pc = "consolidated" =>
            SameFights(engagements, engagements', InputCellsAfter(engagements))]_vars

\* three fights were consolidated into two engagements: the first engagement
\* holds the kills of two fights, the first fight still holds its own
ConsolidateLeavesInputWitness ==
    /\ pc = "consolidated"
    /\ Len(fights) = 3
    /\ Len(engagements) = 2
    /\ engagements[1].blue_team_kills + engagements[1].red_team_kills
         > fights[1].blue_team_kills + fights[1].red_team_kills
    /\ fights[1].kills = <<>>

\* the positions in kill_events of the kills of one killer
KillsOfKiller(kill_events, killer_id) ==
    {i \in DOMAIN kill_events : Get(kill_events[i], "killerId", 0) = killer_id}

\* the killer's kills are one run: at least two, all of them inside the
\* 30-second window anchored at the first of them
SingleWindowRun(kill_events, killer_id) ==
    LET run == KillsOfKiller(kill_events, killer_id)
    IN /\ Cardinality(run) >= 2
       /\ \A i \in run : \A j \in run :
             kill_events[j].timestamp <= kill_events[i].timestamp + SPREE_WINDOW_MS

SpreesOf(spikes) == {n \in DOMAIN spikes : spikes[n].type = "Killing Spree"}

\* C22: overlapping 30-second windows of one killer are not registered as
\* distinct sprees: a run of kills by the same killer that all fall within
\* the window anchored at the run's first kill yields exactly one
\* 'Killing Spree' spike for that killer.
OneSpreePerRun ==
    pc = "spikes_done" =>
        \A killer_id \in 1 .. 10 :
            SingleWindowRun(KillEventsOf(timeline_data), killer_id)
                => Cardinality(SpreesOf(power_spikes[killer_id])) = 1

\* the position in all_events of the k-th death of a tracked player
DeathPosition(k) ==
    LET all_events == AllEvents(timeline_data)
    IN CHOOSE n \in DOMAIN all_events :
          /\ IsTrackedDeath(all_events[n], player1_data, player2_data)
          /\ Cardinality({m \in 1 .. n :
                 IsTrackedDeath(all_events[m], player1_data, player2_data)}) = k

\* C23: at most one entry is reported per death of a tracked player, taken
\* from the first qualifying event of the window in time order, and a
\* co-death is reported once: no pair of deaths, one of each tracked player,
\* gets a 'died together' entry from each death's direction.
CoDeathReportedOnce ==
    pc = "duo_done" =>
        LET all_events == AllEvents(timeline_data)
            appended == SharedDeathEvents(timeline_data, player1_data, player2_data)
        IN /\ Len(duo_report.death_context) = Len(appended)
           /\ \A r \in Range(duo_report.death_context) :
                 \E a \in Range(appended) : a.context = r
           /\ \A a \in DOMAIN appended : \A b \in DOMAIN appended :
                 a # b => appended[a].death # appended[b].death
           /\ \A a \in DOMAIN appended :
                 \A n \in 1 .. appended[a].hit - 1 :
                    LET death == all_events[DeathPosition(appended[a].death)]
                        other_id == IF death.victimId = player1_data.participantId
                                    THEN player2_data.participantId
                                    ELSE player1_data.participantId
                    IN ~(/\ InDuoWindow(all_events[n], death.timestamp)
                         /\ \/ IsCoDeath(all_events[n], other_id)
                            \/ IsRevenge(all_events[n], other_id))
           /\ \A a \in DOMAIN appended : \A b \in DOMAIN appended :
                 ~(/\ a # b
                   /\ appended[a].co_death /\ appended[b].co_death
                   /\ appended[a].hit = DeathPosition(appended[b].death)
                   /\ appended[b].hit = DeathPosition(appended[a].death))

\* the two tracked players die 8 s apart, each death inside the window of
\* the other, and one 'died together' entry is reported
CoDeathReportedOnceWitness ==
    /\ pc = "duo_done"
    /\ LET all_events == AllEvents(timeline_data)
       IN \E m \in DOMAIN all_events : \E n \in DOMAIN all_events :
            /\ m < n
            /\ IsKill(all_events[m]) /\ IsKill(all_events[n])
            /\ all_events[m].victimId = 1 /\ all_events[n].victimId = 2
            /\ all_events[n].timestamp - all_events[m].timestamp = 8000
    /\ Len(duo_report.death_context) = 1
    /\ duo_report.death_context[1].event.text = "died together"
    /\ duo_report.death_context[1].outcome.seconds = 8

\* the position in all_events of the first elite monster kill of the 60
\* seconds after a death, 0 if there is none
FirstEliteKillAfter(death) ==
    LET all_events == AllEvents(timeline_data)
        hits == {n \in DOMAIN all_events :
                    /\ IsEliteKill(all_events[n])
                    /\ all_events[n].timestamp > death.timestamp
                    /\ all_events[n].timestamp <= death.timestamp + 60000}
    IN IF hits = {} THEN 0 ELSE CHOOSE n \in hits : \A m \in hits : n <= m

\* the record _analyze_objectives emits for the event at position n
ObjectiveAt(n) ==
    LET all_events == AllEvents(timeline_data)
    IN _analyze_objectives(timeline_data)[
           Cardinality({m \in 1 .. n : IsEliteKill(all_events[m])})]

\* C24: for an elite monster kill that the objective tracker and the death
\* analysis both report, the two agree on the team: the outcome is "Enemy
\* took" exactly when _analyze_objectives gives the event to the team opposing
\* the dead player, "Allies took (trade)" exactly when it gives it to the
\* player's team; only the first elite monster kill of the window is reported.
OutcomeAgreesWithObjectives ==
    pc = "death_done" =>
        \A k \in DOMAIN death_analyses :
            LET death == PlayerDeaths(timeline_data, player_participant_id)[k]
                n == FirstEliteKillAfter(death)
                player_team == IF player_participant_id <= 5 THEN "Blue" ELSE "Red"
                notes == death_analyses[k].outcome
            IN n # 0 =>
                 /\ Len(notes) = 1
                 /\ notes[1].note = "Enemy took" <=> ObjectiveAt(n).team # player_team
                 /\ notes[1].note = "Allies took (trade)"
                        <=> ObjectiveAt(n).team = player_team

\* the participants within distance < 2000 of the victim in the frame of
\* a death, counted by id range: the victim's side and the other side
NearbySides(death) ==
    LET df == DeathFrameOf(timeline_data.info.frames, 1, death.timestamp)
        near == IF DeathFrameTruthy(df)
                THEN Range(FightParticipants(df, player_participant_id))
                ELSE {}
        own == {p \in near :
                   IsBlueId(p.participantId) = IsBlueId(player_participant_id)}
    IN [A |-> Cardinality(own), E |-> Cardinality(near \ own)]

HasHeadCountNote(analysis) ==
    \E n \in DOMAIN analysis.context :
        analysis.context[n].note = "Fought in a AvE situation"

\* C25: the head-count note "Fought in a AvE situation" flags a numeric
\* disadvantage: it is in a death's context exactly when, among the
\* participants within distance < 2000 of the victim in the death frame, the
\* victim's side (A, the victim included) is outnumbered by the enemy (A < E).
HeadCountFlagsDisadvantage ==
    pc = "death_done" =>
        \A k \in DOMAIN death_analyses :
            LET death == PlayerDeaths(timeline_data, player_participant_id)[k]
            IN HasHeadCountNote(death_analyses[k])
                  <=> NearbySides(death).A < NearbySides(death).E

(***************************************************************************)
(* Specification of the objective tracker: _analyze_objectives on a        *)
(* timeline of up to MaxObjectives events.                                 *)
(***************************************************************************)
MaxObjectives == 3

ObjectiveTimes == {0, 30000, 60200}

ObjectiveShapes ==
    { [type |-> "ELITE_MONSTER_KILL", killerId |-> 2, killerTeamId |-> 100,
       monsterType |-> "DRAGON", monsterSubType |-> "FIRE_DRAGON"],
      [type |-> "ELITE_MONSTER_KILL", killerId |-> 7, killerTeamId |-> 200,
       monsterType |-> "DRAGON"],
      [type |-> "ELITE_MONSTER_KILL", killerId |-> 7, killerTeamId |-> 200,
       monsterType |-> "BARON_NASHOR"],
      [type |-> "ELITE_MONSTER_KILL", killerId |-> 1, killerTeamId |-> 100,
       monsterType |-> "HORDE", monsterSubType |-> "VOIDGRUB"],
      [type |-> "CHAMPION_KILL", killerId |-> 1, victimId |-> 6,
       assistingParticipantIds |-> <<>>] }

InitObjectives ==
    /\ pc = "objectives"
    /\ \E n \in 0 .. MaxObjectives :
         \E ts \in [1 .. n -> ObjectiveTimes] :
           \E sh \in [1 .. n -> ObjectiveShapes] :
             /\ IsNonDecreasing(ts)
             /\ timeline_data = OneFrameTimeline([i \in 1 .. n |-> At(sh[i], ts[i])])
    /\ player_participant_id = 1
    /\ match_data = NoMatch
    /\ objectives = <<>>
    /\ FightsIdle /\ LaningIdle /\ SpikesIdle /\ DeathIdle /\ DuoIdle /\ MatchIdle
    /\ StateIdle /\ WorkflowIdle

\* analyze_match, line 566
AnalyzeObjectives ==
    /\ pc = "objectives"
    /\ objectives' = _analyze_objectives(timeline_data)
    /\ pc' = "objectives_done"
    /\ UNCHANGED <<inputVars, exceptObjectives>>

NextObjectives == AnalyzeObjectives

SpecObjectives == InitObjectives /\ [][NextObjectives]_vars

\* C26: _analyze_objectives emits exactly one record per ELITE_MONSTER_KILL
\* event, in timeline order, whose type is the event's monsterSubType
\* whenever the event carries one (for any monster type) and the generic
\* monsterType otherwise.
ObjectiveTypePrefersSubType ==
    pc = "objectives_done" =>
        LET objective_kills == SelectSeq(AllEvents(timeline_data), IsEliteKill)
        IN /\ Len(objectives) = Len(objective_kills)
           /\ \A k \in DOMAIN objective_kills :
                 /\ objectives[k].time_minutes = RoundMinutes(objective_kills[k].timestamp)
                 /\ objectives[k].type =
                       IF "monsterSubType" \in DOMAIN objective_kills[k]
                       THEN objective_kills[k].monsterSubType
                       ELSE objective_kills[k].monsterType

\* C27: _get_player_participant_data returns None, without raising, or the
\* participant record whose puuid is the target PUUID: None if the PUUID is
\* absent from metadata.participants, never another player's record, also
\* when info.participants is ordered differently from metadata.participants;
\* so every individual report is the report of a tracked player.
ParticipantLookupIsExact ==
    Analyzed =>
        /\ \A n \in DOMAIN puuids_to_analyze :
              LET puuid == puuids_to_analyze[n]
                  player_data == _get_player_participant_data(match_data, puuid)
              IN /\ puuid \notin Range(match_data.metadata.participants)
                        => IsNone(player_data)
                 /\ ~IsNone(player_data) => player_data.puuid = puuid
        /\ outcome.kind = "returned" =>
              \A i \in DOMAIN outcome.value.individual_reports :
                 \E n \in DOMAIN puuids_to_analyze :
                    \E p \in Range(match_data.info.participants) :
                       /\ p.puuid = puuids_to_analyze[n]
                       /\ p.championName = outcome.value.individual_reports[i].key

\* the duo report that lines 577-588 of analyze_match compute
ProducedDuoReport ==
    DuoReport(match_data, timeline_data,
              AllPlayerData(match_data, puuids_to_analyze, 1, <<>>))

\* C28: whenever analyze_match produces a duo_report, individual_reports
\* holds exactly two entries, one for each of the two resolved tracked
\* players, so the two player names of the duo report can be read from it.
DuoReportHasTwoReports ==
    (Analyzed /\ ~IsNone(ProducedDuoReport)) =>
        /\ outcome.kind = "returned"
        /\ Len(outcome.value.individual_reports) = 2
        /\ \A n \in ResolvablePositions :
              \E i \in DOMAIN outcome.value.individual_reports :
                 \E p \in Range(match_data.info.participants) :
                    /\ p.puuid = puuids_to_analyze[n]
                    /\ p.championName = outcome.value.individual_reports[i].key

(***************************************************************************)
(* services/pipeline_orchestrator.py: WorkflowState and the calls of       *)
(* PipelineOrchestrator that read or change a workflow.                    *)
(*                                                                         *)
(* A WorkflowState is a record of current_phase, phases_completed and      *)
(* metadata; created_at and updated_at are written but never read by the   *)
(* calls modelled here and are left out.  The database row that            *)
(* _restore_workflow_from_database reads is an input of the call.          *)
(***************************************************************************)
\* list(WorkflowPhase)
phase_order ==
    <<"DISCOVERY", "USER_CONTRIBUTION", "AI_ENHANCEMENT", "TIMELINE_GENERATION",
      "IMAGE_PROCESSING", "FINAL_ASSEMBLY", "COMPLETE">>

WorkflowPhase == Range(phase_order)

\* a phase that is appended although it is in the list
NotYetCompleted_Always(state, phase) == TRUE

\* if phase not in self.phases_completed (line 51)
NotYetCompleted(state, phase) == phase \notin Range(state.phases_completed)

\* any completed phase moves the workflow on
CompletesCurrent_AnyPhase(state, phase) == TRUE

\* if phase == self.current_phase (line 55)
CompletesCurrent(state, phase) == phase = state.current_phase

\* WorkflowState.mark_phase_complete (lines 49-61); list positions count
\* from 1 here, so current_index < len(phase_order) - 1 reads < Len
mark_phase_complete(state, phase) ==
    LET current_index == IndexOf(phase_order, state.current_phase)
    IN [state EXCEPT
          !.phases_completed = IF NotYetCompleted(state, phase) THEN Append(@, phase) ELSE @,
          !.current_phase = IF CompletesCurrent(state, phase)
                                 /\ current_index < Len(phase_order)
                            THEN phase_order[current_index + 1]
                            ELSE @]

\* PipelineOrchestrator.initialize_workflow (lines 70-93), metadata=None
initialize_workflow(article_id) ==
    [article_id |-> article_id, current_phase |-> "DISCOVERY", phases_completed |-> <<>>,
     metadata |-> EmptyDict]

\* the rows NewsArticle.query.get can give: no article (or the query raises),
\* or an article with the columns the restoration looks at
ArticleRows ==
    {NoneValue} \cup
    [raw_content : BOOLEAN, user_contribution : BOOLEAN, enhanced_content : BOOLEAN,
     timeline_json : BOOLEAN]

\* _restore_workflow_from_database (lines 243-312): the state or None
_restore_workflow_from_database(article_id, article) ==
    LET Restored(current_phase, n) ==
            [article_id |-> article_id, current_phase |-> current_phase,
             phases_completed |-> SubSeq(phase_order, 1, n),
             metadata |-> [restored_from_db |-> TRUE]]
    IN IF IsNone(article) THEN NoneValue
       ELSE IF article.enhanced_content
       THEN IF article.timeline_json THEN Restored("IMAGE_PROCESSING", 4)
            ELSE Restored("TIMELINE_GENERATION", 3)
       ELSE IF article.user_contribution THEN Restored("AI_ENHANCEMENT", 2)
       ELSE IF article.raw_content THEN Restored("USER_CONTRIBUTION", 1)
       ELSE NoneValue

\* get_workflow_state (lines 95-110): the state found, and _workflow_states
\* with a restored state cached in it
get_workflow_state(states, article_id, article) ==
    IF article_id \in DOMAIN states
    THEN [state |-> states[article_id], states |-> states]
    ELSE LET restored == _restore_workflow_from_database(article_id, article)
         IN [state |-> restored,
             states |-> IF IsNone(restored) THEN states
                        ELSE [a \in DOMAIN states \cup {article_id} |->
                                 IF a = article_id THEN restored ELSE states[a]]]

\* get_next_phase (lines 149-166), given the state found
get_next_phase(state) ==
    IF IsNone(state) THEN NoneValue
    ELSE IF state.current_phase = "COMPLETE" THEN NoneValue
    ELSE [phase |-> state.current_phase]

(***************************************************************************)
(* Specification of the pipeline orchestrator: one orchestrator, the       *)
(* articles of ArticleIds, at most MaxCalls calls.                         *)
(***************************************************************************)
MaxCalls == 8

ArticleIds == {1}

NoWorkflows == [a \in {} |-> <<>>]

\* the database is read only for an article that is not in _workflow_states
RowsRead(article_id) ==
    IF article_id \in DOMAIN workflow_states THEN {NoneValue} ELSE ArticleRows

\* PipelineOrchestrator.__init__ (lines 66-68)
InitWorkflow ==
    /\ pc = "orchestrator"
    /\ workflow_states = NoWorkflows
    /\ workflow_call = [op |-> "__init__", calls |-> 0]
    /\ timeline_data = NoTimeline /\ match_data = NoMatch /\ player_participant_id = 0
    /\ FightsIdle /\ LaningIdle /\ SpikesIdle /\ DeathIdle /\ DuoIdle /\ MatchIdle
    /\ StateIdle /\ ObjectivesIdle

InitializeWorkflow ==
    \E article_id \in ArticleIds :
        /\ workflow_call.calls < MaxCalls
        /\ workflow_states' =
             [a \in DOMAIN workflow_states \cup {article_id} |->
                 IF a = article_id THEN initialize_workflow(article_id)
                 ELSE workflow_states[a]]
        /\ workflow_call' = [op |-> "initialize_workflow", article_id |-> article_id,
                             calls |-> workflow_call.calls + 1]
        /\ UNCHANGED exceptWorkflow

\* advance_workflow (lines 112-130)
AdvanceWorkflow ==
    \E article_id \in ArticleIds, completed_phase \in WorkflowPhase :
      \E article \in RowsRead(article_id) :
        LET found == get_workflow_state(workflow_states, article_id, article)
        IN /\ workflow_call.calls < MaxCalls
           /\ workflow_states' =
                IF IsNone(found.state) THEN found.states
                ELSE [found.states EXCEPT
                        ![article_id] = mark_phase_complete(found.state, completed_phase)]
           /\ workflow_call' = [op |-> "advance_workflow", article_id |-> article_id,
                                completed_phase |-> completed_phase,
                                returned |-> ~IsNone(found.state),
                                calls |-> workflow_call.calls + 1]
           /\ UNCHANGED exceptWorkflow

GetNextPhase ==
    \E article_id \in ArticleIds :
      \E article \in RowsRead(article_id) :
        LET found == get_workflow_state(workflow_states, article_id, article)
        IN /\ workflow_call.calls < MaxCalls
           /\ workflow_states' = found.states
           /\ workflow_call' = [op |-> "get_next_phase", article_id |-> article_id,
                                returned |-> get_next_phase(found.state),
                                calls |-> workflow_call.calls + 1]
           /\ UNCHANGED exceptWorkflow

NextWorkflow == InitializeWorkflow \/ AdvanceWorkflow \/ GetNextPhase

SpecWorkflow == InitWorkflow /\ [][NextWorkflow]_vars

(***************************************************************************)
(* Properties of the pipeline orchestrator                                 *)
(***************************************************************************)

\* a workflow that initialize_workflow created (not one restored from the
\* database)
CreatedByInitialize(state) == "restored_from_db" \notin DOMAIN state.metadata

PhaseIndex(phase) == IndexOf(phase_order, phase)

NoPhaseTwice(phases_completed) ==
    \A i \in DOMAIN phases_completed : \A j \in DOMAIN phases_completed :
        i # j => phases_completed[i] # phases_completed[j]

\* one advance_workflow call on the workflow of article_id
AdvanceMovesForwardByOne(article_id) ==
    LET before == workflow_states[article_id]
        after == workflow_states'[article_id]
        completed_phase == workflow_call'.completed_phase
    IN /\ PhaseIndex(after.current_phase) >= PhaseIndex(before.current_phase)
       /\ IF completed_phase = before.current_phase /\ before.current_phase # "COMPLETE"
          THEN PhaseIndex(after.current_phase) = PhaseIndex(before.current_phase) + 1
          ELSE after.current_phase = before.current_phase
       /\ NoPhaseTwice(after.phases_completed)

\* C29: for a workflow created by initialize_workflow and changed only by
\* advance_workflow, current_phase never moves backwards in the phase order;
\* one call moves it forward by exactly one phase when the completed phase is
\* current_phase (and that is not COMPLETE) and leaves it unchanged
\* otherwise; phases_completed never holds a phase twice.
AdvanceNeverMovesBack ==
    [][\A article_id \in DOMAIN workflow_states :
          (/\ workflow_call'.op = "advance_workflow"
           /\ workflow_call'.article_id = article_id
           /\ CreatedByInitialize(workflow_states[article_id]))
          => AdvanceMovesForwardByOne(article_id)]_vars

\* a workflow was taken from DISCOVERY to COMPLETE with AI_ENHANCEMENT marked
\* complete ahead of its turn and once more in its turn
AdvanceNeverMovesBackWitness ==
    /\ workflow_call.op = "advance_workflow"
    /\ workflow_call.completed_phase = "FINAL_ASSEMBLY"
    /\ 1 \in DOMAIN workflow_states
    /\ CreatedByInitialize(workflow_states[1])
    /\ workflow_states[1].current_phase = "COMPLETE"
    /\ workflow_states[1].phases_completed =
          <<"AI_ENHANCEMENT", "DISCOVERY", "USER_CONTRIBUTION", "TIMELINE_GENERATION",
            "IMAGE_PROCESSING", "FINAL_ASSEMBLY">>

\* C30: in every state reachable from initialize_workflow through
\* advance_workflow calls, every phase that precedes current_phase in the
\* phase order is in phases_completed; so a workflow whose current_phase is
\* COMPLETE has DISCOVERY through FINAL_ASSEMBLY completed, and
\* get_next_phase returns None only then.
PrecedingPhasesCompleted ==
    \A article_id \in DOMAIN workflow_states :
        LET state == workflow_states[article_id]
        IN CreatedByInitialize(state) =>
             /\ \A k \in 1 .. PhaseIndex(state.current_phase) - 1 :
                   phase_order[k] \in Range(state.phases_completed)
             /\ state.current_phase = "COMPLETE" =>
                   \A k \in 1 .. 6 : phase_order[k] \in Range(state.phases_completed)
             /\ (workflow_call.op = "get_next_phase"
                    /\ workflow_call.article_id = article_id)
                   => (IsNone(workflow_call.returned) <=> state.current_phase = "COMPLETE")

\* get_next_phase was asked about a workflow that six advance_workflow calls
\* took from DISCOVERY to COMPLETE, and returned None
PrecedingPhasesCompletedWitness ==
    /\ workflow_call.op = "get_next_phase"
    /\ IsNone(workflow_call.returned)
    /\ 1 \in DOMAIN workflow_states
    /\ CreatedByInitialize(workflow_states[1])
    /\ workflow_states[1].current_phase = "COMPLETE"
    /\ Len(workflow_states[1].phases_completed) = 6

====
